---- MODULE Spec2Model ----
(***************************************************************************)
(* A model of the prolly-tree blob and streaming-map code of the dolt      *)
(* repository: NomsMapCreator (both variants), Blob.ReadAt / BlobReader,   *)
(* Blob.CopyReadAhead, readBlob / readBlobsP and concat.                   *)
(*                                                                         *)
(* Each subsystem has its own specification (SpecMap, SpecCopy, ...) over  *)
(* its own variables; the variables of the other subsystems stay at their  *)
(* idle values.                                                            *)
(***************************************************************************)
EXTENDS Integers, Sequences, FiniteSets, TLC

VARIABLES
  \* ---- NomsMapCreator (sqlbatcher.go:202-315 and :346-432)
  variant,      \* "err": the variant with the err field, "recover": the recover-based one
  lastPK,       \* nmc.lastPK, NoKey when nil
  kvsChan,      \* nmc.kvsChan: "set" or "nil"
  kvsClosed,    \* whether the kv channel has been closed
  err,          \* nmc.err ("nil" when unset; only the err variant has it)
  result,       \* nmc.result: NoMap when nil, else the map
  mpc,          \* where the caller is: "idle", "sendPK", "sendFV", "closeWait", "crashed"
  curPK,        \* key of the row of the WriteRow in progress
  kvSent,       \* the values received by the consumer from the kv channel, in order
  sm,           \* the streaming-map consumer: [state, err, map]
  calls,        \* history of finished calls: [op, key, ret, sent]
  \* ---- Blob.ReadAt and BlobReader (blob.go:49-93, :172-204)
  rLeaves,      \* the blob: the sequence of its leaves' byte runs
  rPos,         \* BlobReader.pos
  rStart,       \* position of the reader after its last Seek (0 at first)
  rOut,         \* the bytes returned by the Read calls since then
  rLast,        \* the last call and what it returned
  \* ---- Blob.CopyReadAhead (blob.go:106-144)
  cLeaves,      \* the blob b: the sequence of its leaves' byte runs
  chunkSize,    \* parameter chunkSize
  concurrency,  \* parameter concurrency
  canFail,      \* whether w.Write may return an error
  bChan,        \* the buffer of bChan: the blocks sent and not yet received
  bClosed,      \* whether bChan has been closed
  dpc,          \* the dispatcher goroutine: "top", "send", "spawn", "done"
  idx,          \* the dispatcher's idx
  wpc,          \* the writer loop: "range", "recvBuf", "drain", "returned"
  held,         \* the block whose channel the writer loop received last
  cn,           \* the result n
  cOut,         \* the bytes passed to w.Write so far
  lastW,        \* the last block written: [start, len, prev]
  stuck,        \* some read-ahead goroutine can never hand over its buffer
  ctxDone,      \* the caller has cancelled ctx
  \* ---- the rolling value hasher, shared by concat and readBlob
  pat,          \* the byte windows at which the leaf hasher reports a boundary
  mpat,         \* the child hashes at which a meta-level hasher reports one
  \* ---- concat (part_000:32-65) and Blob.Concat (blob.go:149-154)
  catItems,     \* the item sequence S
  cat,          \* the last split tried: [k, whole, joined]
  \* ---- NewBlob / readBlobsP / readBlob (blob.go:224-331)
  rs,           \* the readers: the bytes each one holds
  numCPU,       \* runtime.NumCPU(), the capacity of every mtChan
  prod,         \* per reader, the producer goroutine of readBlob
  mtChan,       \* per reader, the channels queued on mtChan, oldest first
  mtClosed,     \* per reader, whether mtChan is closed
  cons,         \* per reader, the consuming loop of readBlob and its chunker
  cutOrder,     \* per reader, the byte runs cut so far, in order
  appended,     \* per reader, the meta-tuples appended to the parent chunker
  blobPc,       \* where readBlobsP is
  joinIdx,      \* the i of readBlobsP's concatenation loop
  blobOut,      \* the b of readBlobsP, and the blob NewBlob returns
  \* ---- SqlBatcher (sqlbatcher.go:14-196)
  bRoot,        \* the root value: the row data (a set of keys) of each table
  batcher,      \* the SqlBatcher: tables, schemas, rowData, editors, hashes
  bCalls,       \* the Insert calls made so far and what they returned
  \* ---- OrderedPutCache (put-cache.js:27-117) and its DbCollection
  chunkIndex,   \* _chunkIndex: the [hash, key] entries in insertion order
  coll,         \* the records of the collection: [id, hash], in id order
  nextId,       \* the _id the collection gives to the next record
  appends,      \* _appends: the hashes whose insert is pending, oldest first
  ops,          \* the dropUntil / extractChunks calls that have not run yet
  cLast,        \* the last dropUntil / extractChunks that ran, and its effect
  cCalls,       \* the calls made on the cache so far; a call's number names it
  inTask        \* the caller's code is running: no promise reaction ran since

mapVars == <<variant, lastPK, kvsChan, kvsClosed, err, result, mpc, curPK, kvSent, sm, calls>>

readVars == <<rLeaves, rPos, rStart, rOut, rLast>>

copyVars == <<cLeaves, chunkSize, concurrency, canFail, bChan, bClosed, dpc, idx,
              wpc, held, cn, cOut, lastW, stuck, ctxDone>>

hashVars == <<pat, mpat>>
catVars == <<catItems, cat>>

blobVars == <<rs, numCPU, prod, mtChan, mtClosed, cons, cutOrder, appended,
              blobPc, joinIdx, blobOut>>

batchVars == <<bRoot, batcher, bCalls>>

cacheVars == <<chunkIndex, coll, nextId, appends, ops, cLast, cCalls, inTask>>

vars == <<mapVars, readVars, copyVars, hashVars, catVars, blobVars, batchVars,
          cacheVars>>

----------------------------------------------------------------------------
(* Bounds *)

\* number of distinct primary keys 1..MaxKey
MaxKey == 3
\* number of WriteRow / Close calls made on one NomsMapCreator
MaxCalls == 5
\* number of bytes in a blob that is read
MaxBlobLen == 4
\* length of the buffers passed to ReadAt and Read
MaxBuf == 3
\* number of bytes in a blob that is copied
MaxCopyLen == 3
\* largest chunkSize passed to CopyReadAhead
MaxChunkSize == 2
\* largest concurrency passed to CopyReadAhead
MaxConcurrency == 2
\* number of items (bytes) in the sequences that are built and concatenated
MaxItems == 5
\* readers handed to NewBlob, and the bytes they hold together
MaxReaders == 2
MaxBytes == 3
\* the largest runtime.NumCPU()
MaxCPU == 2
\* the initial length of readBlob's chunk buffer (8192 in the code)
ChunkBuffLen == 2
\* the bytes of the reader when readBlob is run alone
MaxRunBytes == 4
\* the primary keys 1..MaxBatchKey of a table, and the Insert calls made
MaxBatchKey == 2
MaxInserts == 2
\* the calls made on an OrderedPutCache
MaxCacheCalls == 5

----------------------------------------------------------------------------
(* NomsMapCreator *)

NoKey == 0
\* nmc.result = nil: no map (a map is the sequence of its keys, all in Keys)
NoMap == <<NoKey>>
Keys == 1..MaxKey

\* lastPK.Less(format, pk): the format's total order on keys
Less(a, b) == a < b

\* sqlbatcher.go:251-258 and :387: the row is accepted when there is no last
\* key or the last key is strictly less than the row's key
IsOKAllowEqual(last, pk) == last = NoKey \/ ~Less(pk, last)
IsOK(last, pk) == last = NoKey \/ Less(last, pk)

\* sqlbatcher.go:230: WriteRow returns the stored error first
WriteRowHasErr(e) == e /= "nil"

\* sqlbatcher.go:277 and :392: nmc.lastPK = pk, after both sends went through
LastPKKept(old, pk) == old
LastPKAfterRow(old, pk) == pk

\* sqlbatcher.go:233: WriteRow finds the kv channel field set to nil
WriteRowIsClosedNever(ch) == FALSE
WriteRowIsClosed(ch) == ch = "nil"

\* sqlbatcher.go:297: Close returns the stored error first
CloseHasErrNever(e) == FALSE
CloseHasErr(e) == e /= "nil"

\* close(ch) in Go: panics on a nil channel and on a closed channel
CloseChanPanics(field, closed) == field = "nil" \/ closed

\* the map the consumer builds from the values it received: the pairs
\* (key, value) in the order received; a trailing unpaired key is dropped
PairsOf(vals) == [i \in 1..(Len(vals) \div 2) |-> vals[2 * i - 1][2]]

KeysSent == SelectSeq(kvSent, LAMBDA v : v[1] = "k")

Returned(op, key, ret, sent) ==
  calls' = Append(calls, [op |-> op, key |-> key, ret |-> ret, sent |-> sent,
                          before |-> lastPK])

\* a step of the NomsMapCreator leaves the other subsystems alone
MapOnly ==
  UNCHANGED <<readVars, copyVars, hashVars, catVars, blobVars, batchVars, cacheVars>>

MapIdle ==
  /\ variant = "err"
  /\ lastPK = NoKey
  /\ kvsChan = "set"
  /\ kvsClosed = FALSE
  /\ err = "nil"
  /\ result = NoMap
  /\ mpc = "idle"
  /\ curPK = NoKey
  /\ kvSent = <<>>
  /\ sm = [state |-> "running", err |-> "nil", map |-> NoMap]
  /\ calls = <<>>

MapInit ==
  /\ variant \in {"err", "recover"}
  /\ lastPK = NoKey
  /\ kvsChan = "set"
  /\ kvsClosed = FALSE
  /\ err = "nil"
  /\ result = NoMap
  /\ mpc = "idle"
  /\ curPK = NoKey
  /\ kvSent = <<>>
  /\ sm = [state |-> "running", err |-> "nil", map |-> NoMap]
  /\ calls = <<>>

\* WriteRow up to its first channel send, sqlbatcher.go:229-260 (err variant)
WriteRowErr(k) ==
  /\ variant = "err"
  /\ mpc = "idle"
  /\ Len(calls) < MaxCalls
  /\ curPK' = k
  /\ IF WriteRowHasErr(err)
       THEN /\ Returned("WriteRow", k, err, 0)
            /\ UNCHANGED <<lastPK, kvsChan, kvsClosed, err, mpc>>
     ELSE IF WriteRowIsClosed(kvsChan)
       THEN /\ Returned("WriteRow", k, "closed", 0)
            /\ UNCHANGED <<lastPK, kvsChan, kvsClosed, err, mpc>>
     ELSE IF IsOK(lastPK, k)
       THEN /\ mpc' = "sendPK"
            /\ UNCHANGED <<lastPK, kvsChan, kvsClosed, err, calls>>
     ELSE \* sqlbatcher.go:281, 285-291
            /\ IF CloseChanPanics(kvsChan, kvsClosed)
                 THEN /\ mpc' = "crashed"
                      /\ Returned("WriteRow", k, "panic", 0)
                      /\ UNCHANGED <<kvsChan, kvsClosed, err>>
                 ELSE /\ kvsClosed' = TRUE
                      /\ kvsChan' = "nil"
                      /\ err' = "unsorted"
                      /\ Returned("WriteRow", k, "unsorted", 0)
                      /\ UNCHANGED mpc
            /\ UNCHANGED lastPK
  /\ UNCHANGED <<variant, result, kvSent, sm>>
  /\ MapOnly

\* the error path of WriteRow, sqlbatcher.go:285-291
FailWrite(e, sent) ==
  IF CloseChanPanics(kvsChan, kvsClosed)
    THEN /\ mpc' = "crashed"
         /\ Returned("WriteRow", curPK, "panic", sent)
         /\ UNCHANGED <<kvsChan, kvsClosed, err>>
    ELSE /\ kvsClosed' = TRUE
         /\ kvsChan' = "nil"
         /\ err' = e
         /\ mpc' = "idle"
         /\ Returned("WriteRow", curPK, e, sent)

\* send(pkVal), sqlbatcher.go:237-245 and :271: the consumer receives the key,
\* or the consumer is done and its error is returned
SendPKErr ==
  /\ variant = "err"
  /\ mpc = "sendPK"
  /\ IF sm.state = "running"
       THEN /\ kvSent' = Append(kvSent, <<"k", curPK>>)
            /\ mpc' = "sendFV"
            /\ UNCHANGED <<kvsChan, kvsClosed, err, calls>>
       ELSE /\ FailWrite(sm.err, 0)
            /\ UNCHANGED kvSent
  /\ UNCHANGED <<variant, lastPK, result, curPK, sm>>
  /\ MapOnly

\* send(fv) and the return, sqlbatcher.go:274-279
SendFVErr ==
  /\ variant = "err"
  /\ mpc = "sendFV"
  /\ IF sm.state = "running"
       THEN /\ kvSent' = Append(kvSent, <<"v", curPK>>)
            /\ lastPK' = LastPKAfterRow(lastPK, curPK)
            /\ mpc' = "idle"
            /\ Returned("WriteRow", curPK, "nil", 2)
            /\ UNCHANGED <<kvsChan, kvsClosed, err>>
       ELSE /\ FailWrite(sm.err, 1)
            /\ UNCHANGED <<kvSent, lastPK>>
  /\ UNCHANGED <<variant, result, curPK, sm>>
  /\ MapOnly

\* Close up to streamingMap.Wait(), sqlbatcher.go:296-303
CloseErr ==
  /\ variant = "err"
  /\ mpc = "idle"
  /\ Len(calls) < MaxCalls
  /\ IF CloseHasErr(err)
       THEN /\ Returned("Close", NoKey, err, 0)
            /\ UNCHANGED <<kvsChan, kvsClosed, mpc>>
     ELSE IF result = NoMap
       THEN IF CloseChanPanics(kvsChan, kvsClosed)
              THEN /\ mpc' = "crashed"
                   /\ Returned("Close", NoKey, "panic", 0)
                   /\ UNCHANGED <<kvsChan, kvsClosed>>
              ELSE /\ kvsClosed' = TRUE
                   /\ kvsChan' = "nil"
                   /\ mpc' = "closeWait"
                   /\ UNCHANGED calls
     ELSE /\ Returned("Close", NoKey, "alreadyClosed", 0)
          /\ UNCHANGED <<kvsChan, kvsClosed, mpc>>
  /\ UNCHANGED <<variant, lastPK, err, result, curPK, kvSent, sm>>
  /\ MapOnly

\* m, err := streamingMap.Wait(); nmc.result = &m; return err, sqlbatcher.go:303-305
CloseWaitErr ==
  /\ variant = "err"
  /\ mpc = "closeWait"
  /\ sm.state = "done"
  /\ result' = sm.map
  /\ mpc' = "idle"
  /\ Returned("Close", NoKey, sm.err, 0)
  /\ UNCHANGED <<variant, lastPK, kvsChan, kvsClosed, err, curPK, kvSent, sm>>
  /\ MapOnly

\* WriteRow up to its first channel send, sqlbatcher.go:372-390 (recover variant)
WriteRowRecover(k) ==
  /\ variant = "recover"
  /\ mpc = "idle"
  /\ Len(calls) < MaxCalls
  /\ curPK' = k
  /\ IF kvsChan = "nil"
       THEN \* panic("Attempting to write after closing."), outside the recover
            /\ mpc' = "crashed"
            /\ Returned("WriteRow", k, "panic", 0)
     ELSE IF IsOK(lastPK, k)
       THEN /\ mpc' = "sendPK"
            /\ UNCHANGED calls
     ELSE /\ Returned("WriteRow", k, "unsorted", 0)
          /\ UNCHANGED mpc
  /\ UNCHANGED <<variant, lastPK, kvsChan, kvsClosed, err, result, kvSent, sm>>
  /\ MapOnly

\* nmc.kvsChan <- pkVal, sqlbatcher.go:390: a send on a closed channel panics
\* and the panic is recovered into an error; otherwise the send waits for
\* the consumer
SendPKRecover ==
  /\ variant = "recover"
  /\ mpc = "sendPK"
  /\ IF kvsClosed
       THEN /\ mpc' = "idle"
            /\ Returned("WriteRow", curPK, "recovered", 0)
            /\ UNCHANGED kvSent
       ELSE /\ sm.state = "running"
            /\ kvSent' = Append(kvSent, <<"k", curPK>>)
            /\ mpc' = "sendFV"
            /\ UNCHANGED calls
  /\ UNCHANGED <<variant, lastPK, kvsChan, kvsClosed, err, result, curPK, sm>>
  /\ MapOnly

\* nmc.kvsChan <- fieldVals.Value(ctx); nmc.lastPK = pk, sqlbatcher.go:391-392
SendFVRecover ==
  /\ variant = "recover"
  /\ mpc = "sendFV"
  /\ IF kvsClosed
       THEN /\ mpc' = "idle"
            /\ Returned("WriteRow", curPK, "recovered", 1)
            /\ UNCHANGED <<kvSent, lastPK>>
       ELSE /\ sm.state = "running"
            /\ kvSent' = Append(kvSent, <<"v", curPK>>)
            /\ lastPK' = LastPKAfterRow(lastPK, curPK)
            /\ mpc' = "idle"
            /\ Returned("WriteRow", curPK, "nil", 2)
  /\ UNCHANGED <<variant, kvsChan, kvsClosed, err, result, curPK, sm>>
  /\ MapOnly

\* Close up to the receive on mapChan, sqlbatcher.go:403-413
CloseRecover ==
  /\ variant = "recover"
  /\ mpc = "idle"
  /\ Len(calls) < MaxCalls
  /\ IF result = NoMap
       THEN IF CloseChanPanics(kvsChan, kvsClosed)
              THEN /\ Returned("Close", NoKey, "recovered", 0)
                   /\ UNCHANGED <<kvsClosed, mpc>>
              ELSE /\ kvsClosed' = TRUE
                   /\ mpc' = "closeWait"
                   /\ UNCHANGED calls
       ELSE /\ Returned("Close", NoKey, "alreadyClosed", 0)
            /\ UNCHANGED <<kvsClosed, mpc>>
  /\ UNCHANGED <<variant, lastPK, kvsChan, err, result, curPK, kvSent, sm>>
  /\ MapOnly

\* result := <-nmc.mapChan; nmc.result = &result; nmc.kvsChan = nil,
\* sqlbatcher.go:415-419.  A closed mapChan yields the zero map.
CloseWaitRecover ==
  /\ variant = "recover"
  /\ mpc = "closeWait"
  /\ sm.state = "done"
  /\ result' = IF sm.err = "nil" THEN sm.map ELSE <<>>
  /\ kvsChan' = "nil"
  /\ mpc' = "idle"
  /\ Returned("Close", NoKey, "nil", 0)
  /\ UNCHANGED <<variant, lastPK, kvsClosed, err, curPK, kvSent, sm>>
  /\ MapOnly

\* the streaming-map consumer sees the kv channel closed and finalizes the map
ConsumerFinish ==
  /\ sm.state = "running"
  /\ kvsClosed
  /\ sm' = [state |-> "done", err |-> "nil", map |-> PairsOf(kvSent)]
  /\ UNCHANGED <<variant, lastPK, kvsChan, kvsClosed, err, result, mpc, curPK, kvSent, calls>>
  /\ MapOnly

\* the streaming-map consumer stops early (its context is cancelled or the
\* value store fails)
ConsumerStop ==
  /\ sm.state = "running"
  /\ sm' = [state |-> "done", err |-> "canceled", map |-> <<>>]
  /\ UNCHANGED <<variant, lastPK, kvsChan, kvsClosed, err, result, mpc, curPK, kvSent, calls>>
  /\ MapOnly

MapNext ==
  \/ \E k \in Keys : WriteRowErr(k)
  \/ SendPKErr
  \/ SendFVErr
  \/ CloseErr
  \/ CloseWaitErr
  \/ \E k \in Keys : WriteRowRecover(k)
  \/ SendPKRecover
  \/ SendFVRecover
  \/ CloseRecover
  \/ CloseWaitRecover
  \/ ConsumerFinish
  \/ ConsumerStop


----------------------------------------------------------------------------
(* Claims about NomsMapCreator *)

WriteRowCalls == {j \in 1..Len(calls) : calls[j].op = "WriteRow"}
Accepted == {j \in WriteRowCalls : calls[j].ret = "nil"}
\* the key of the last row accepted before call j (NoKey when there is none)
LastAcceptedBefore(j) ==
  LET before == {i \in Accepted : i < j}
  IN IF before = {} THEN NoKey
     ELSE calls[CHOOSE i \in before : \A h \in before : h <= i].key
\* every call before j was a WriteRow that returned nil
HealthyBefore(j) == \A i \in 1..(j - 1) : i \in Accepted

\* C8: in both variants the keys sent on the kv channel are strictly
\* increasing, and a WriteRow whose key is not strictly greater than the last
\* accepted key returns an error and sends nothing for it; the error is the
\* unsorted-input error when no earlier call failed or closed the builder.
C8_MonotoneKeys ==
  /\ \A i, j \in 1..Len(KeysSent) :
       i < j => Less(KeysSent[i][2], KeysSent[j][2])
  /\ \A j \in WriteRowCalls :
       LET last == LastAcceptedBefore(j)
       IN (last /= NoKey /\ ~Less(last, calls[j].key)) =>
            /\ calls[j].ret /= "nil"
            /\ calls[j].sent = 0
            /\ HealthyBefore(j) => calls[j].ret = "unsorted"

\* an unsorted row was rejected after two rows had been sent
C8_Witness ==
  /\ Len(KeysSent) >= 2
  /\ \E j \in WriteRowCalls :
       /\ calls[j].ret = "unsorted"
       /\ HealthyBefore(j)
       /\ ~Less(LastAcceptedBefore(j), calls[j].key)

\* C9: in the variant with the err field, once a WriteRow has returned the
\* unsorted-input error every later WriteRow returns that same error and
\* sends nothing, and a later Close returns an error: it does not panic
\* (no second close of the kv channel) and it does not wait for the consumer.
C9_AfterUnsorted ==
  variant = "err" =>
    \A i \in WriteRowCalls :
      calls[i].ret = "unsorted" =>
        /\ mpc = "idle"
        /\ \A j \in (i + 1)..Len(calls) :
             /\ calls[j].op = "WriteRow" =>
                  calls[j].ret = "unsorted" /\ calls[j].sent = 0
             /\ calls[j].op = "Close" =>
                  calls[j].ret \notin {"nil", "panic"}

\* the scenario S5: keys accepted, an unsorted key rejected, then another
\* WriteRow and a Close
C9_Witness ==
  /\ variant = "err"
  /\ \E i, j, h \in 1..Len(calls) :
       /\ i < j /\ i < h
       /\ calls[i].op = "WriteRow" /\ calls[i].ret = "unsorted"
       /\ calls[j].op = "WriteRow"
       /\ calls[h].op = "Close"

\* C10: in the recover-based variant, after a WriteRow has returned the
\* unsorted-input error every later WriteRow returns an error and sends
\* nothing on the kv channel, whatever its key.
C10_TerminalFailed ==
  variant = "recover" =>
    \A i, j \in WriteRowCalls :
      (i < j /\ calls[i].ret = "unsorted") =>
        calls[j].ret /= "nil" /\ calls[j].sent = 0

\* the Close calls that returned nil
ClosedOK == {i \in 1..Len(calls) : calls[i].op = "Close" /\ calls[i].ret = "nil"}

\* C11: in the variant with the err field, once Close has returned nil every
\* WriteRow returns the writing-after-closing error as a value: it sends
\* nothing, it does not panic and it does not wait on the kv channel.
C11_WriteAfterClose ==
  (variant = "err" /\ ClosedOK /= {}) =>
    /\ mpc = "idle"
    /\ \A i \in ClosedOK : \A j \in WriteRowCalls :
         i < j => calls[j].ret = "closed" /\ calls[j].sent = 0

\* rows were accepted, Close returned nil and two more rows were written
C11_Witness ==
  /\ variant = "err"
  /\ \E i \in ClosedOK : \E j, h \in WriteRowCalls :
       /\ i < j /\ j < h
       /\ \E a \in Accepted : a < i

\* the keys of the rows accepted among the first n calls, in call order
RECURSIVE AcceptedKeys(_)
AcceptedKeys(n) ==
  IF n = 0 THEN <<>>
  ELSE IF n \in Accepted THEN Append(AcceptedKeys(n - 1), calls[n].key)
  ELSE AcceptedKeys(n - 1)

\* C12: in both variants GetMap returns nil as long as no Close has returned,
\* and once a Close has returned nil the consumer has finished and GetMap
\* returns the map the consumer built from exactly the accepted rows.
C12_CloseReturnsMap ==
  /\ (\A j \in 1..Len(calls) : calls[j].op /= "Close") => result = NoMap
  /\ \A i \in ClosedOK :
       /\ sm.state = "done"
       /\ result = AcceptedKeys(i)

\* nmc.lastPK when call j returned
LastPKAfter(j) == IF j < Len(calls) THEN calls[j + 1].before ELSE lastPK

\* C19: a WriteRow that returns nil has sent exactly two values, the key and
\* then the value of its row, and lastPK is that row's key; a WriteRow that
\* returns an error leaves lastPK as it was.  The values on the kv channel
\* alternate key, value, each value behind the key of its own row, and the
\* complete pairs are the accepted rows.
C19_AllOrNothing ==
  /\ \A j \in WriteRowCalls :
       IF calls[j].ret = "nil"
         THEN calls[j].sent = 2 /\ LastPKAfter(j) = calls[j].key
         ELSE calls[j].sent < 2 /\ LastPKAfter(j) = calls[j].before
  /\ \A i \in 1..Len(kvSent) :
       IF i % 2 = 1 THEN kvSent[i][1] = "k"
       ELSE kvSent[i][1] = "v" /\ kvSent[i][2] = kvSent[i - 1][2]
  /\ PairsOf(kvSent) = AcceptedKeys(Len(calls))

\* two rows were accepted, and a later row failed after its key was sent
C19_Witness ==
  /\ variant = "err"
  /\ \E i, j, h \in WriteRowCalls :
       /\ i < j /\ j < h
       /\ calls[i].ret = "nil" /\ calls[j].ret = "nil"
       /\ calls[h].ret /= "nil" /\ calls[h].sent = 1

\* a WriteRow is waiting to send the key or the value of its row
SendPending == mpc \in {"sendPK", "sendFV"}

\* C17: in both variants a WriteRow that is waiting to send on the kv channel
\* eventually returns, also when the consumer has ended.
C17_WriteRowReturns == SendPending ~> ~SendPending

----------------------------------------------------------------------------
(* Blob.ReadAt and BlobReader *)

Min(a, b) == IF a < b THEN a ELSE b

RECURSIVE SumLen(_)
\* Blob.Len(): the number of bytes in the leaves
SumLen(leaves) ==
  IF leaves = <<>> THEN 0 ELSE Len(Head(leaves)) + SumLen(Tail(leaves))

RECURSIVE Flatten(_)
\* the bytes of a blob, in order
Flatten(leaves) ==
  IF leaves = <<>> THEN <<>> ELSE Head(leaves) \o Flatten(Tail(leaves))

RECURSIVE CutBlob(_, _, _)
\* the blob holding the bytes from..n (byte i has the value i), cut into
\* leaves after every position in cuts
CutBlob(from, n, cuts) ==
  IF from > n THEN <<>>
  ELSE LET ends == {c \in cuts : c >= from} \cup {n}
           e == CHOOSE c \in ends : \A d \in ends : c <= d
       IN <<[i \in 1..(e - from + 1) |-> from + i - 1]>> \o CutBlob(e + 1, n, cuts)

\* the blobs of n bytes: NewEmptyBlob is one empty leaf
BlobsOfLen(n) ==
  IF n = 0 THEN {<< <<>> >>}
  ELSE {CutBlob(1, n, cuts) : cuts \in SUBSET (1..(n - 1))}

RECURSIVE SkipLeaves(_, _)
\* the leaves from the one holding byte index start on, with start made
\* relative to the first of them
SkipLeaves(leaves, start) ==
  IF leaves = <<>> THEN [leaves |-> <<>>, localStart |-> start]
  ELSE IF start < Len(Head(leaves)) THEN [leaves |-> leaves, localStart |-> start]
  ELSE SkipLeaves(Tail(leaves), start - Len(Head(leaves)))

RECURSIVE TakeLeaves(_, _)
\* the leaves that hold the first count bytes
TakeLeaves(leaves, count) ==
  IF leaves = <<>> \/ count <= 0 THEN <<>>
  ELSE <<Head(leaves)>> \o TakeLeaves(Tail(leaves), count - Len(Head(leaves)))

\* LoadLeafNodes(ctx, []Collection{b}, startIdx, endIdx): the leaves that
\* cover [startIdx, endIdx) and the offset of startIdx in the first of them
LoadLeafNodes(leaves, startIdx, endIdx) ==
  LET s == SkipLeaves(leaves, startIdx)
  IN [leaves |-> TakeLeaves(s.leaves, s.localStart + endIdx - startIdx),
      localStart |-> s.localStart]

\* blob.go:78-83: localEnd is endIdx clamped to the leaf's length
LocalEndNoClamp(endIdx, leafLength) == endIdx
LocalEnd(endIdx, leafLength) == IF endIdx > leafLength THEN leafLength ELSE endIdx

\* copy(p[n:], src): as many bytes of src as fit in p after n
CopyInto(p, n, src) ==
  [i \in 1..Len(p) |-> IF i > n /\ i <= n + Len(src) THEN src[i - n] ELSE p[i]]

RECURSIVE ReadLoop(_, _, _, _, _)
\* the loop over the leaves, blob.go:75-90; data[startIdx:localEnd] panics
\* when the bounds are out of range
ReadLoop(leaves, p, n, startIdx, endIdx) ==
  IF leaves = <<>> THEN [n |-> n, p |-> p, panic |-> FALSE]
  ELSE LET data == Head(leaves)
           localEnd == LocalEnd(endIdx, Len(data))
       IN IF startIdx > localEnd \/ localEnd > Len(data)
            THEN [n |-> n, p |-> p, panic |-> TRUE]
            ELSE LET src == SubSeq(data, startIdx + 1, localEnd)
                 IN ReadLoop(Tail(leaves), CopyInto(p, n, src), n + Len(src),
                             0, endIdx - localEnd)

\* blob.go:58-61: endIdx is startIdx + len(p), clamped to the blob's length
EndIdxFor(startIdx, plen, blen) ==
  IF startIdx + plen > blen THEN blen ELSE startIdx + plen

\* Blob.ReadAt(ctx, p, off), blob.go:49-93: [n, eof, p, panic]
ReadAt(leaves, p, off) ==
  IF off < 0 THEN [n |-> 0, eof |-> FALSE, p |-> p, panic |-> TRUE]
  ELSE IF off >= SumLen(leaves) THEN [n |-> 0, eof |-> TRUE, p |-> p, panic |-> FALSE]
  ELSE LET endIdx == EndIdxFor(off, Len(p), SumLen(leaves))
           eof == endIdx = SumLen(leaves)
       IN IF off = endIdx THEN [n |-> 0, eof |-> eof, p |-> p, panic |-> FALSE]
          ELSE LET ll == LoadLeafNodes(leaves, off, endIdx)
                   r == ReadLoop(ll.leaves, p, 0, ll.localStart,
                                 ll.localStart + endIdx - off)
               IN [n |-> r.n, eof |-> eof, p |-> r.p, panic |-> r.panic]

\* a fresh buffer of length L (its bytes are 0, which no blob holds)
Buffer(L) == [i \in 1..L |-> 0]

NoCall == [op |-> "none"]

ReadIdle ==
  /\ rLeaves = << <<>> >>
  /\ rPos = 0
  /\ rStart = 0
  /\ rOut = <<>>
  /\ rLast = NoCall

\* b.Reader(ctx) on some blob, blob.go:95-97
ReadInit ==
  /\ rLeaves \in UNION {BlobsOfLen(n) : n \in 0..MaxBlobLen}
  /\ rPos = 0
  /\ rStart = 0
  /\ rOut = <<>>
  /\ rLast = NoCall

\* a step of the reader leaves the other subsystems alone
ReadOnly ==
  UNCHANGED <<mapVars, copyVars, hashVars, catVars, blobVars, batchVars, cacheVars>>

\* a direct call b.ReadAt(ctx, p, off) with len(p) = L
CallReadAt(L, off) ==
  /\ rLast' = [op |-> "ReadAt", off |-> off, L |-> L,
               res |-> ReadAt(rLeaves, Buffer(L), off)]
  /\ UNCHANGED <<rLeaves, rPos, rStart, rOut>>
  /\ ReadOnly

\* BlobReader.Read(p) with len(p) = L, blob.go:178-182
Read(L) ==
  LET r == ReadAt(rLeaves, Buffer(L), rPos)
  IN /\ rPos' = rPos + r.n
     /\ rOut' = rOut \o SubSeq(r.p, 1, r.n)
     /\ rLast' = [op |-> "Read", off |-> rPos, L |-> L, res |-> r]
     /\ UNCHANGED <<rLeaves, rStart>>
     /\ ReadOnly

\* the position Seek computes, blob.go:185-196 (whence 0, 1, 2)
SeekAbsClamped(pos, blen, offset, whence) ==
  CASE whence = 0 -> Min(offset, blen)
    [] whence = 1 -> Min(pos + offset, blen)
    [] whence = 2 -> Min(blen + offset, blen)
    [] OTHER -> pos
SeekAbs(pos, blen, offset, whence) ==
  CASE whence = 0 -> offset
    [] whence = 1 -> pos + offset
    [] whence = 2 -> blen + offset
    [] OTHER -> pos

\* blob.go:198: a negative position is refused
SeekNegativeNever(abs) == FALSE
SeekNegative(abs) == abs < 0

\* BlobReader.Seek(offset, whence), blob.go:184-204
Seek(offset, whence) ==
  LET abs == SeekAbs(rPos, SumLen(rLeaves), offset, whence)
  IN /\ abs <= MaxBlobLen + 1
     /\ IF whence \notin {0, 1, 2}
          THEN /\ rLast' = [op |-> "Seek", pos |-> rPos, off |-> offset,
                            whence |-> whence,
                            ret |-> 0, err |-> "invalid whence"]
               /\ UNCHANGED <<rPos, rStart, rOut>>
        ELSE IF SeekNegative(abs)
          THEN /\ rLast' = [op |-> "Seek", pos |-> rPos, off |-> offset,
                            whence |-> whence,
                            ret |-> 0, err |-> "negative position"]
               /\ UNCHANGED <<rPos, rStart, rOut>>
        ELSE /\ rPos' = abs
             /\ rStart' = abs
             /\ rOut' = <<>>
             /\ rLast' = [op |-> "Seek", pos |-> rPos, off |-> offset,
                          whence |-> whence,
                          ret |-> abs, err |-> "nil"]
     /\ UNCHANGED rLeaves
     /\ ReadOnly

ReadNext ==
  \/ \E L \in 0..MaxBuf, off \in 0..(MaxBlobLen + 1) : CallReadAt(L, off)
  \/ \E L \in 0..MaxBuf : Read(L)
  \/ \E offset \in (0 - MaxBlobLen - 1)..(MaxBlobLen + 1), whence \in 0..3 : Seek(offset, whence)

----------------------------------------------------------------------------
(* Claims about Blob.ReadAt and BlobReader *)

\* the number of leaves a byte range [off, off + n) touches
LeavesSpanned(leaves, off, n) ==
  Len(LoadLeafNodes(leaves, off, off + n).leaves)

\* C3: for a blob holding bytes X split into any leaves, any off >= 0 and any
\* buffer of length L, ReadAt returns n = min(L, len(X) - off) when
\* off < len(X) and n = 0 with EOF otherwise, p[0:n] holds exactly
\* X[off : off+n] (the rest of p is untouched), EOF is reported exactly when
\* off + L >= len(X); and the bytes returned by successive BlobReader.Read
\* calls are the bytes of X from the reader's start position on, all of X
\* when reading from 0 reaches EOF.
C3_ReadAtResult ==
  LET X == Flatten(rLeaves)
  IN /\ rLast.op \in {"ReadAt", "Read"} =>
          LET off == rLast.off
              L == rLast.L
              r == rLast.res
          IN /\ ~r.panic
             /\ r.n = (IF off < Len(X) THEN Min(L, Len(X) - off) ELSE 0)
             /\ Len(r.p) = L
             /\ \A i \in 1..L : r.p[i] = (IF i <= r.n THEN X[off + i] ELSE 0)
             /\ r.eof <=> (off + L >= Len(X))
     /\ rOut = [i \in 1..(rPos - rStart) |-> X[rStart + i]]
     /\ (rLast.op = "Read" /\ rLast.res.eof /\ rStart = 0) => rOut = X

\* a ReadAt in the middle of a blob whose range spans at least two leaves
C3_Witness ==
  /\ rLast.op = "ReadAt"
  /\ rLast.off > 0
  /\ rLast.res.n >= 2
  /\ ~rLast.res.eof
  /\ LeavesSpanned(rLeaves, rLast.off, rLast.res.n) >= 2

\* the position the last Seek call asked for: offset from the start, from
\* the position before the call, or from the end of the blob
SeekTarget ==
  CASE rLast.whence = 0 -> rLast.off
    [] rLast.whence = 1 -> rLast.pos + rLast.off
    [] OTHER -> SumLen(rLeaves) + rLast.off

\* C15: Seek with whence 0, 1 or 2 whose target position is not negative
\* moves the reader to that position and returns it, also past the end of
\* the blob; a Read at a position at or past the end returns 0 bytes and EOF
\* and leaves the position where it was.
C15_SeekThenRead ==
  /\ (rLast.op = "Seek" /\ rLast.whence \in {0, 1, 2} /\ SeekTarget >= 0) =>
       /\ rLast.err = "nil"
       /\ rLast.ret = SeekTarget
       /\ rPos = SeekTarget
  /\ (rLast.op = "Read" /\ rLast.off >= SumLen(rLeaves)) =>
       /\ rLast.res.n = 0
       /\ rLast.res.eof
       /\ rPos = rLast.off

\* a Read with a non-empty buffer, after a Seek beyond the end of a blob
\* that has bytes
C15_Witness ==
  /\ rLast.op = "Read"
  /\ rLast.L > 0
  /\ SumLen(rLeaves) > 0
  /\ rLast.off > SumLen(rLeaves)

\* C16: a Seek whose target is negative or whose whence is not 0, 1 or 2
\* returns an error and leaves the position unchanged; the position is never
\* negative, so no Read reaches ReadAt's panic on a negative offset.
C16_SeekErrors ==
  /\ rPos >= 0
  /\ rLast.op = "Seek" =>
       /\ rLast.whence \notin {0, 1, 2} => rLast.err = "invalid whence"
       /\ (rLast.whence \in {0, 1, 2} /\ SeekTarget < 0) =>
            rLast.err = "negative position"
       /\ rLast.err /= "nil" => rLast.ret = 0 /\ rPos = rLast.pos
  /\ rLast.op = "Read" => ~rLast.res.panic /\ rLast.off >= 0

\* a Seek relative to a position inside the blob was refused as negative
C16_Witness ==
  /\ rLast.op = "Seek"
  /\ rLast.err = "negative position"
  /\ rLast.whence = 1
  /\ rLast.pos > 0
  /\ rPos = rLast.pos

----------------------------------------------------------------------------
(* Blob.CopyReadAhead *)

\* a block: the channel bc and the goroutine that fills it.  st is "new"
\* (bc made, goroutine not started), "reading" (ReadAt running) or "ready"
\* (the goroutine holds buff and waits in bc <- buff)
NewBlock == [st |-> "new", start |-> 0, len |-> 0, buf |-> <<>>]
NoBlock == [st |-> "none", start |-> 0, len |-> 0, buf |-> <<>>]
NoWrite == [start |-> 0 - 1, len |-> 0, prev |-> 0 - 1]

\* blob.go:107: bChan := make(chan chan []byte, concurrency)
CapPlusOne(c) == c + 1
Cap(c) == c

\* blob.go:136-137: the writer loop takes the channels in the order they
\* were sent on bChan, and waits for the buffer of the one it took
WriterTakesReadyFirst(q) ==
  IF \E i \in 1..Len(q) : q[i].st = "ready"
    THEN CHOOSE i \in 1..Len(q) : q[i].st = "ready" /\ \A j \in 1..(i - 1) : q[j].st /= "ready"
    ELSE 1
WriterTakes(q) == 1

\* q without its i-th element
Without(q, i) == SubSeq(q, 1, i - 1) \o SubSeq(q, i + 1, Len(q))

\* blob.go:115-118
BlockLength(blen, start, cs) == IF blen - start > cs THEN cs ELSE blen - start

CopyIdle ==
  /\ cLeaves = << <<>> >>
  /\ chunkSize = 1
  /\ concurrency = 1
  /\ canFail = FALSE
  /\ bChan = <<>>
  /\ bClosed = FALSE
  /\ dpc = "top"
  /\ idx = 0
  /\ wpc = "range"
  /\ held = NoBlock
  /\ cn = 0
  /\ cOut = <<>>
  /\ lastW = NoWrite
  /\ stuck = FALSE
  /\ ctxDone = FALSE

\* the call b.CopyReadAhead(ctx, w, chunkSize, concurrency), blob.go:106-109
CopyInit ==
  /\ cLeaves \in UNION {BlobsOfLen(k) : k \in 0..MaxCopyLen}
  /\ chunkSize \in 0..MaxChunkSize
  /\ concurrency \in 0..MaxConcurrency
  /\ canFail \in BOOLEAN
  /\ bChan = <<>>
  /\ bClosed = FALSE
  /\ dpc = "top"
  /\ idx = 0
  /\ wpc = "range"
  /\ held = NoBlock
  /\ cn = 0
  /\ cOut = <<>>
  /\ lastW = NoWrite
  /\ stuck = FALSE
  /\ ctxDone = FALSE

\* a step of CopyReadAhead leaves the other subsystems alone, and ctx as it
\* is: no statement of blob.go:106-144 ends ctx or looks at ctx.Done()
CopyOthers ==
  UNCHANGED <<mapVars, readVars, hashVars, catVars, blobVars, batchVars, cacheVars>>
CopyOnly == CopyOthers /\ UNCHANGED ctxDone

\* the caller cancels ctx while CopyReadAhead is running
CtxCancel ==
  /\ ~ctxDone
  /\ wpc /= "returned"
  /\ ctxDone' = TRUE
  /\ UNCHANGED <<cLeaves, chunkSize, concurrency, canFail, bChan, bClosed, dpc, idx,
                 wpc, held, cn, cOut, lastW, stuck>>
  /\ CopyOthers

\* blob.go:106 and :143: the only result is n; there is no error result
CopyErr == "nil"

\* the loop test and close(bChan), blob.go:110-111 and :127
DispTop ==
  /\ dpc = "top"
  /\ IF idx < SumLen(cLeaves)
       THEN dpc' = "send" /\ UNCHANGED bClosed
       ELSE dpc' = "done" /\ bClosed' = TRUE
  /\ UNCHANGED <<cLeaves, chunkSize, concurrency, canFail, bChan, idx, wpc, held, cn,
                 cOut, lastW, stuck>>
  /\ CopyOnly

\* bChan <- bc can proceed: there is room in the buffer, or bChan is
\* unbuffered and the writer loop (or the deferred drain) is receiving
CanSend ==
  IF Len(bChan) < Cap(concurrency) THEN TRUE
  ELSE Cap(concurrency) = 0 /\ wpc \in {"range", "drain"}

\* bChan <- bc, blob.go:112
DispSend ==
  /\ dpc = "send"
  /\ CanSend
  /\ dpc' = "spawn"
  /\ IF Len(bChan) < Cap(concurrency)
       THEN /\ bChan' = Append(bChan, NewBlock)
            /\ UNCHANGED <<wpc, held>>
     ELSE IF wpc = "range"
       THEN /\ held' = NewBlock
            /\ wpc' = "recvBuf"
            /\ UNCHANGED bChan
     ELSE UNCHANGED <<bChan, wpc, held>>
  /\ UNCHANGED <<cLeaves, chunkSize, concurrency, canFail, bClosed, idx, cn, cOut,
                 lastW, stuck>>
  /\ CopyOnly

\* start, blockLength and idx are computed and the goroutine is started,
\* blob.go:114-125.  The block is where the send left it; when the deferred
\* drain has already dropped its channel the goroutine can never hand over.
DispSpawn ==
  /\ dpc = "spawn"
  /\ dpc' = "top"
  /\ LET bl == BlockLength(SumLen(cLeaves), idx, chunkSize)
         blk == [st |-> "reading", start |-> idx, len |-> bl, buf |-> <<>>]
     IN /\ idx' = idx + bl
        /\ IF held.st = "new"
             THEN held' = blk /\ UNCHANGED <<bChan, stuck>>
           ELSE IF \E i \in 1..Len(bChan) : bChan[i].st = "new"
             THEN /\ bChan' = [i \in 1..Len(bChan) |->
                                 IF bChan[i].st = "new" THEN blk ELSE bChan[i]]
                  /\ UNCHANGED <<held, stuck>>
           ELSE stuck' = TRUE /\ UNCHANGED <<bChan, held>>
  /\ UNCHANGED <<cLeaves, chunkSize, concurrency, canFail, bClosed, wpc, cn, cOut, lastW>>
  /\ CopyOnly

\* what the goroutine of a block holds when b.ReadAt has returned, blob.go:122-123
Fetched(blk) ==
  [blk EXCEPT !.st = "ready",
              !.buf = ReadAt(cLeaves, Buffer(blk.len), blk.start).p]

\* the goroutine of the block the writer holds finishes its ReadAt
FetchHeld ==
  /\ held.st = "reading"
  /\ held' = Fetched(held)
  /\ UNCHANGED <<cLeaves, chunkSize, concurrency, canFail, bChan, bClosed, dpc, idx,
                 wpc, cn, cOut, lastW, stuck>>
  /\ CopyOnly

\* the goroutine of a block still in bChan finishes its ReadAt
FetchQueued(i) ==
  /\ bChan[i].st = "reading"
  /\ bChan' = [bChan EXCEPT ![i] = Fetched(bChan[i])]
  /\ UNCHANGED <<cLeaves, chunkSize, concurrency, canFail, bClosed, dpc, idx, wpc,
                 held, cn, cOut, lastW, stuck>>
  /\ CopyOnly

\* for b := range bChan, blob.go:136: the next channel, or the end of the
\* loop when bChan is closed and empty (the deferred drain then ends at once)
WRange ==
  /\ wpc = "range"
  /\ IF bChan /= <<>>
       THEN /\ held' = bChan[WriterTakes(bChan)]
            /\ bChan' = Without(bChan, WriterTakes(bChan))
            /\ wpc' = "recvBuf"
       ELSE /\ bClosed
            /\ wpc' = "returned"
            /\ UNCHANGED <<bChan, held>>
  /\ UNCHANGED <<cLeaves, chunkSize, concurrency, canFail, bClosed, dpc, idx, cn, cOut,
                 lastW, stuck>>
  /\ CopyOnly

\* ln, err := w.Write(<-b) with err = nil, blob.go:137-138
WWrite ==
  /\ wpc = "recvBuf"
  /\ held.st = "ready"
  /\ cOut' = cOut \o held.buf
  /\ cn' = cn + Len(held.buf)
  /\ lastW' = [start |-> held.start, len |-> held.len, prev |-> lastW.start]
  /\ held' = NoBlock
  /\ wpc' = "range"
  /\ UNCHANGED <<cLeaves, chunkSize, concurrency, canFail, bChan, bClosed, dpc, idx, stuck>>
  /\ CopyOnly

\* w.Write(<-b) returns an error having written nothing: CopyReadAhead
\* returns through the deferred drain, blob.go:139-141 and :131-134
WWriteFails ==
  /\ wpc = "recvBuf"
  /\ held.st = "ready"
  /\ canFail
  /\ held' = NoBlock
  /\ wpc' = "drain"
  /\ UNCHANGED <<cLeaves, chunkSize, concurrency, canFail, bChan, bClosed, dpc, idx, cn,
                 cOut, lastW, stuck>>
  /\ CopyOnly

\* for range bChan {}, blob.go:131-134: the channels are received and dropped
\* (their buffers are never received) until bChan is closed
WDrain ==
  /\ wpc = "drain"
  /\ IF bChan /= <<>>
       THEN /\ bChan' = Tail(bChan)
            /\ stuck' = (stuck \/ Head(bChan).st \in {"reading", "ready"})
            /\ UNCHANGED wpc
       ELSE /\ bClosed
            /\ wpc' = "returned"
            /\ UNCHANGED <<bChan, stuck>>
  /\ UNCHANGED <<cLeaves, chunkSize, concurrency, canFail, bClosed, dpc, idx, held, cn,
                 cOut, lastW>>
  /\ CopyOnly

Dispatcher == DispTop \/ DispSend \/ DispSpawn
Fetchers == FetchHeld \/ \E i \in 1..Len(bChan) : FetchQueued(i)
Writer == WRange \/ WWrite \/ WWriteFails \/ WDrain

CopyNext == Dispatcher \/ Fetchers \/ Writer \/ CtxCancel

----------------------------------------------------------------------------
(* Claims about Blob.CopyReadAhead *)

\* the blocks whose ReadAt has been started and whose buffer the writer
\* loop has not received yet
InFlight ==
  Len(SelectSeq(bChan, LAMBDA b : b.st \in {"reading", "ready"}))
    + (IF held.st \in {"reading", "ready"} THEN 1 ELSE 0)

\* C4: in every interleaving of the dispatcher, the per-block goroutines and
\* the writer loop, the blocks passed to w.Write are contiguous and in
\* ascending offset order: each block starts where the previous one ended,
\* at a multiple of chunkSize, and covers
\* [start, min(start + chunkSize, Len)), so the bytes written so far are
\* always a prefix of the blob (strictly ascending starts for chunkSize >= 1).
C4_WriteOrder ==
  LET X == Flatten(cLeaves)
  IN /\ Len(cOut) <= Len(X)
     /\ cOut = SubSeq(X, 1, Len(cOut))
     /\ cn = Len(cOut)
     /\ lastW /= NoWrite =>
          /\ lastW.start + lastW.len = Len(cOut)
          /\ lastW.len = Min(chunkSize, Len(X) - lastW.start)
          /\ chunkSize >= 1 =>
               /\ lastW.start % chunkSize = 0
               /\ lastW.prev < lastW.start
               /\ lastW.prev >= 0 => lastW.prev + chunkSize = lastW.start

\* fetches complete out of order: a block has been written, the block the
\* writer loop waits for is still being read and a later block is ready
C4_Witness ==
  /\ chunkSize >= 1
  /\ lastW /= NoWrite
  /\ held.st = "reading"
  /\ \E i \in 1..Len(bChan) : bChan[i].st = "ready" /\ bChan[i].start > held.start

\* C5: for any blob and any chunkSize >= 0 and concurrency >= 0, when the
\* writer never fails CopyReadAhead eventually returns, having written the
\* bytes of the blob, with n equal to the blob's length.
C5_Completes ==
  (~canFail) =>
    <>(wpc = "returned" /\ cOut = Flatten(cLeaves) /\ cn = SumLen(cLeaves))

\* C18: once ctx is cancelled the goroutines of CopyReadAhead drop the work
\* that is pending: no further block is passed to w.Write, and a call that
\* has not written the whole blob returns a cancellation error.
C18_CancelStops ==
  [][ctxDone =>
       /\ cOut' = cOut
       /\ (wpc' = "returned" /\ wpc /= "returned" /\ cOut /= Flatten(cLeaves))
            => CopyErr = "canceled"]_vars

\* C20: no per-block read-ahead goroutine is left waiting to hand over its
\* buffer on a channel that nobody will receive from, also after a write
\* error.
C20_ReadAheadExits == ~stuck

----------------------------------------------------------------------------
(* Prolly trees: rolling value hasher, chunk maker, cursor, sequence chunker *)

\* the items of a blob
Byte == {0, 1}

\* the contents of the hasher's window: the last bytes hashed since Reset
\* (the window holds two bytes here)
Windows == UNION {[1..w -> Byte] : w \in 1..2}

\* the values of the hash of a node
HashMod == 2

\* rv.HashByte(b): the window after hashing b
HashByte(win, b) == IF Len(win) < 2 THEN Append(win, b) ELSE <<win[2], b>>

\* the hashers that can be configured: the leaf hasher reports a boundary at
\* some set of windows, a meta-level hasher at some set of child hashes, but
\* not at all of them (a chunker whose every item is a boundary would grow
\* its tower for ever)
Hashers ==
  {h \in [pat : SUBSET Windows, mpat : SUBSET (0..(HashMod - 1))] :
     h.mpat /= 0..(HashMod - 1)}

RECURSIVE SumSeq(_)
SumSeq(q) == IF q = <<>> THEN 0 ELSE Head(q) + SumSeq(Tail(q))

\* a node of a tree: the leaf holding the bytes, blob.go:219-222 ...
LeafNode(bytes) == [level |-> 0, items |-> bytes]
\* ... and the meta-sequence holding the meta-tuples
MetaNode(level, tuples) == [level |-> level, items |-> tuples]

\* makeChunk(level, items): makeBlobLeafChunkFn at level 0, blob.go:206-217,
\* the indexed meta-sequence chunk maker above
MakeChunk(level, items) ==
  IF level = 0 THEN LeafNode(items) ELSE MetaNode(level, items)

\* sequence.numLeaves()
NumLeaves(node) ==
  IF node.level = 0 THEN Len(node.items)
  ELSE SumSeq([i \in 1..Len(node.items) |-> node.items[i].numLeaves])

\* the hash of a node (the reference by which a meta-tuple names it): a
\* function of its contents, here of its bytes or of its children's hashes
HashOf(node) ==
  IF node.level = 0 THEN (SumSeq(node.items) + Len(node.items)) % HashMod
  ELSE (SumSeq([i \in 1..Len(node.items) |-> node.items[i].h]) + 1) % HashMod

\* newMetaTuple(ref, key, numLeaves), blob.go:294: the child is named by
\* content, so the tuple holds the child itself next to its hash
MetaTuple(node) == [child |-> node, numLeaves |-> NumLeaves(node), h |-> HashOf(node)]

\* two roots are the same: same level, same node structure
SameRoot(a, b) == a.level = b.level /\ a = b

\* the bytes below a node, in order
RECURSIVE ItemsOf(_)
ItemsOf(node) ==
  IF node.level = 0 THEN node.items
  ELSE IF node.items = <<>> THEN <<>>
  ELSE ItemsOf(Head(node.items).child)
         \o ItemsOf(MetaNode(node.level, Tail(node.items)))

\* ---- sequenceCursor: a chain of [seq, idx], leaf level first; the parent
\* of chain[l] is chain[l + 1]

\* advanceCursorToOffset on a meta-sequence: the position of the tuple
\* holding leaf at, at most the last one
RECURSIVE TupleFor(_, _, _)
TupleFor(tuples, pos, at) ==
  IF pos < Len(tuples) /\ tuples[pos].numLeaves <= at
    THEN TupleFor(tuples, pos + 1, at - tuples[pos].numLeaves)
    ELSE [pos |-> pos, idx |-> at]

\* newCursorAtIndex(ctx, seq, at)
RECURSIVE newCursorAtIndex(_, _)
newCursorAtIndex(seq, at) ==
  IF seq.level = 0 THEN << [seq |-> seq, idx |-> at] >>
  ELSE LET t == TupleFor(seq.items, 1, at)
       IN newCursorAtIndex(seq.items[t.pos].child, t.idx)
            \o << [seq |-> seq, idx |-> t.pos - 1] >>

\* cur.valid()
Valid(c) == c.idx >= 0 /\ c.idx < Len(c.seq.items)

\* cur.advanceMaybeAllowPastEnd(ctx, allowPastEnd) on chain[l]: [chain, ok]
RECURSIVE Advance(_, _, _)
Advance(chain, l, allowPastEnd) ==
  LET c == chain[l]
  IN IF c.idx < Len(c.seq.items) - 1
       THEN [chain |-> [chain EXCEPT ![l].idx = c.idx + 1], ok |-> TRUE]
     ELSE IF c.idx = Len(c.seq.items) THEN [chain |-> chain, ok |-> FALSE]
     ELSE LET up == IF l < Len(chain) THEN Advance(chain, l + 1, FALSE)
                    ELSE [chain |-> chain, ok |-> FALSE]
          IN IF up.ok
               THEN LET pc == up.chain[l + 1]
                    IN [chain |-> [up.chain EXCEPT
                                     ![l] = [seq |-> pc.seq.items[pc.idx + 1].child,
                                             idx |-> 0]],
                        ok |-> TRUE]
               ELSE [chain |-> IF allowPastEnd THEN [chain EXCEPT ![l].idx = c.idx + 1]
                               ELSE chain,
                     ok |-> FALSE]

\* ---- sequenceChunker: the tower ch (ch[i] builds level i - 1) and the two
\* cursor chains its chunkers may point into

NoCur == [c |-> "nil", l |-> 0]
NoNode == [level |-> 0 - 1, items |-> <<>>]

\* the cursor a chunker's cur points to, and whether that cursor has a parent
CurOf(S, cur) == S.chains[cur.c][cur.l]
HasParentCur(S, cur) == cur /= NoCur /\ cur.l < Len(S.chains[cur.c])
ParentCur(S, cur) == IF HasParentCur(S, cur) THEN [c |-> cur.c, l |-> cur.l + 1] ELSE NoCur

\* a chunker without items
Chunker(cur) == [cur |-> cur, current |-> <<>>, rv |-> <<>>]

\* whether appending item at ch[i] makes its hasher report a boundary
Crosses(S, i, item) ==
  IF i = 1 THEN HashByte(S.ch[i].rv, item) \in pat ELSE item.h \in mpat

RECURSIVE ChunkerAppend(_, _, _)
RECURSIVE createParent(_, _)
RECURSIVE resume(_, _, _)

\* sc.createParent(ctx): the parent is seated at the parent of sc.cur, if any
createParent(S, i) ==
  LET pcur == ParentCur(S, S.ch[i].cur)
      S1 == [S EXCEPT !.ch = Append(S.ch, Chunker(pcur))]
  IN IF pcur = NoCur THEN S1 ELSE resume(S1, i + 1, 0)

\* sc.resume(ctx): create the parent, then append the items of the cursor's
\* chunk that precede the cursor, from item k on
resume(S, i, k) ==
  LET cur == S.ch[i].cur
      S1 == IF k = 0 /\ HasParentCur(S, cur) /\ i = Len(S.ch)
              THEN createParent(S, i) ELSE S
      c == CurOf(S, cur)
  IN IF k < c.idx /\ k < Len(c.seq.items)
       THEN resume(ChunkerAppend(S1, i, c.seq.items[k + 1]), i, k + 1)
       ELSE S1

\* sc.handleChunkBoundary(ctx): reset the hasher, create the parent if there
\* is none, make the chunk and append its meta-tuple to the parent
handleChunkBoundary(S, i) ==
  LET run == S.ch[i].current
      S1 == IF i = Len(S.ch) THEN createParent(S, i) ELSE S
      S2 == [S1 EXCEPT !.ch[i].current = <<>>, !.ch[i].rv = <<>>]
  IN ChunkerAppend(S2, i + 1, MetaTuple(MakeChunk(i - 1, run)))

\* sc.Append(ctx, item)
ChunkerAppend(S, i, item) ==
  LET S1 == [S EXCEPT !.ch[i].current = Append(@, item),
                      !.ch[i].rv = IF i = 1 THEN HashByte(@, item) ELSE @]
  IN IF Crosses(S, i, item) THEN handleChunkBoundary(S1, i) ELSE S1

\* newSequenceChunker(ctx, cur, 0, vrw, ...) with the cursor chain of a tree
newSequenceChunker(chain) ==
  resume([ch |-> <<Chunker([c |-> "fst", l |-> 1])>>,
          chains |-> [fst |-> chain, snd |-> <<>>]], 1, 0)

\* newEmptySequenceChunker(ctx, vrw, ...)
newEmptySequenceChunker ==
  [ch |-> <<Chunker(NoCur)>>, chains |-> [fst |-> <<>>, snd |-> <<>>]]

\* sc.anyPending()
RECURSIVE anyPending(_, _)
anyPending(S, i) ==
  IF i > Len(S.ch) THEN FALSE
  ELSE Len(S.ch[i].current) > 0 \/ anyPending(S, i + 1)

\* the loop of sc.finalizeCursor(ctx): append the items from the cursor on
\* until the cursor ends or a boundary falls on the last item of a chunk
RECURSIVE FinalizeLoop(_, _)
FinalizeLoop(S, i) ==
  LET cur == S.ch[i].cur
      c == CurOf(S, cur)
  IN IF ~Valid(c) THEN S
     ELSE LET item == c.seq.items[c.idx + 1]
              S1 == ChunkerAppend(S, i, item)
          IN IF Crosses(S, i, item) /\ c.idx = Len(c.seq.items) - 1 THEN S1
             ELSE FinalizeLoop(
                    [S1 EXCEPT !.chains[cur.c] = Advance(@, cur.l, TRUE).chain], i)

\* sc.finalizeCursor(ctx)
finalizeCursor(S, i) ==
  LET S1 == FinalizeLoop(S, i)
      cur == S.ch[i].cur
  IN IF HasParentCur(S1, cur)
       THEN [S1 EXCEPT !.chains[cur.c] = Advance(@, cur.l + 1, TRUE).chain]
       ELSE S1

\* the canonical root below a top-level chunker that holds one meta-tuple
RECURSIVE Collapse(_)
Collapse(tuple) ==
  LET child == tuple.child
  IN IF child.level = 0 \/ Len(child.items) > 1 THEN child
     ELSE Collapse(child.items[1])

\* sc.Done(ctx): the root of the tree
RECURSIVE Done(_, _)
Done(S, i) ==
  LET S1 == IF S.ch[i].cur /= NoCur THEN finalizeCursor(S, i) ELSE S
  IN IF i < Len(S1.ch) /\ anyPending(S1, i + 1)
       THEN Done(IF Len(S1.ch[i].current) > 0 THEN handleChunkBoundary(S1, i) ELSE S1,
                 i + 1)
     ELSE IF i = 1 \/ Len(S1.ch[i].current) > 1
       THEN MakeChunk(i - 1, S1.ch[i].current)
     ELSE IF Len(S1.ch[i].current) = 1 THEN Collapse(S1.ch[i].current[1])
     ELSE NoNode

----------------------------------------------------------------------------
(* concat and Blob.Concat *)

\* the index at which the chunker resumes in fst: its end
FstIndexLastItem(fst) == NumLeaves(fst) - 1
FstIndex(fst) == NumLeaves(fst)

\* the index of the cursor into snd
SndIndex == 0

\* the loop that seats the chunker tower on snd's cursor chain: ch.cur = cur
\* at every level, a parent created where snd is deeper than the tower
RECURSIVE SwapCursorsNoParent(_, _, _)
SwapCursorsNoParent(S, cur, i) ==
  IF i > Len(S.ch) THEN S
  ELSE LET S1 == [S EXCEPT !.ch[i].cur = cur]
       IN SwapCursorsNoParent(S1, ParentCur(S1, cur), i + 1)
RECURSIVE SwapCursors(_, _, _)
SwapCursors(S, cur, i) ==
  IF i > Len(S.ch) THEN S
  ELSE LET S1 == [S EXCEPT !.ch[i].cur = cur]
       IN IF cur = NoCur THEN SwapCursors(S1, NoCur, i + 1)
          ELSE LET next == ParentCur(S1, cur)
                   S2 == IF next /= NoCur /\ i = Len(S1.ch)
                           THEN createParent(S1, i) ELSE S1
               IN SwapCursors(S2, next, i + 1)

\* d.Panic("cannot concat sequences from different databases"): no sequence
CrossDatabase == [level |-> 0 - 2, items |-> <<>>]
IsCrossDatabase(n) == n.level = CrossDatabase.level

\* part_000:33-46: the way concat takes for fst of nf leaves and snd of ns
\* leaves: an empty fst returns snd, an empty snd returns fst, and only then
\* are the two value read/writers compared
ConcatPathChunkEmpty(nf, ns, sameVrw) ==
  IF ~sameVrw THEN "panic" ELSE "chunker"
ConcatPathAnyVrw(nf, ns, sameVrw) ==
  IF nf = 0 THEN "snd" ELSE IF ns = 0 THEN "fst" ELSE "chunker"
ConcatPath(nf, ns, sameVrw) ==
  IF nf = 0 THEN "snd"
  ELSE IF ns = 0 THEN "fst"
  ELSE IF ~sameVrw THEN "panic"
  ELSE "chunker"

\* part_000:47-62: the chunker resumed at the end of fst, after the loop
\* that swaps its cursors for snd's
ConcatSwapped(fst, snd) ==
  LET chunker == newSequenceChunker(newCursorAtIndex(fst, FstIndex(fst)))
      S == [chunker EXCEPT !.chains.snd = newCursorAtIndex(snd, SndIndex)]
  IN SwapCursors(S, [c |-> "snd", l |-> 1], 1)

\* part_000:47-64: ... and finished on snd
ConcatChunked(fst, snd) == Done(ConcatSwapped(fst, snd), 1)

\* what the tower looks like after the loop: the cur of every chunker, bottom
\* up, and the index of every cursor of snd's chain
TowerAfterSwap(fst, snd, path) ==
  IF path /= "chunker" THEN [curs |-> <<>>, sndIdx |-> <<>>]
  ELSE LET S == ConcatSwapped(fst, snd)
       IN [curs |-> [i \in 1..Len(S.ch) |-> S.ch[i].cur],
           sndIdx |-> [l \in 1..Len(S.chains.snd) |-> S.chains.snd[l].idx]]

\* concat(ctx, fst, snd, newSequenceChunker); sameVrw: fst.valueReadWriter()
\* is snd.valueReadWriter()
concat(fst, snd, sameVrw) ==
  LET path == ConcatPath(NumLeaves(fst), NumLeaves(snd), sameVrw)
  IN CASE path = "snd" -> snd
       [] path = "fst" -> fst
       [] path = "panic" -> CrossDatabase
       [] OTHER -> ConcatChunked(fst, snd)

\* b.Concat(ctx, other), for blobs of one value store
Concat(b, other) == concat(b, other, TRUE)

\* a tree built in a single pass: every item appended to an empty chunker
RECURSIVE AppendAll(_, _, _)
AppendAll(S, items, k) ==
  IF k > Len(items) THEN S
  ELSE AppendAll(ChunkerAppend(S, 1, items[k]), items, k + 1)

Build(items) == Done(AppendAll(newEmptySequenceChunker, items, 1), 1)

NoCat == [k |-> 0 - 1, same |-> TRUE, path |-> "none", fst |-> NoNode,
          snd |-> NoNode, whole |-> NoNode, joined |-> NoNode,
          tower |-> [curs |-> <<>>, sndIdx |-> <<>>]]

HashIdle == pat = {} /\ mpat = {}
CatIdle == catItems = <<>> /\ cat = NoCat

\* the hasher is configured once, for every tree
HashInit == \E h \in Hashers : pat = h.pat /\ mpat = h.mpat

CatInit == HashInit /\ catItems = <<>> /\ cat = NoCat

CatOnly ==
  UNCHANGED <<mapVars, readVars, copyVars, hashVars, blobVars, batchVars, cacheVars>>

\* one more item in S
AddItem(b) ==
  /\ Len(catItems) < MaxItems
  /\ catItems' = Append(catItems, b)
  /\ cat' = NoCat
  /\ CatOnly

\* S is split at k: both halves are built, in one value store or in two,
\* and concatenated
SplitAt(k, same) ==
  /\ cat = NoCat
  /\ LET fst == Build(SubSeq(catItems, 1, k))
         snd == Build(SubSeq(catItems, k + 1, Len(catItems)))
     IN cat' = [k |-> k, same |-> same,
                path |-> ConcatPath(NumLeaves(fst), NumLeaves(snd), same),
                fst |-> fst, snd |-> snd,
                whole |-> IF same THEN Build(catItems) ELSE NoNode,
                joined |-> concat(fst, snd, same),
                tower |-> TowerAfterSwap(fst, snd,
                            ConcatPath(NumLeaves(fst), NumLeaves(snd), same))]
  /\ UNCHANGED catItems
  /\ CatOnly

CatNext ==
  \/ \E b \in Byte : AddItem(b)
  \/ \E k \in 0..Len(catItems), same \in BOOLEAN : SplitAt(k, same)

----------------------------------------------------------------------------
(* Claims about concat *)

\* C1: for every item sequence S and every split point k, the halves S[0:k]
\* and S[k:] built separately and joined by concat have the same root as S
\* built in a single pass, whatever the depths of the two halves (both
\* halves in one value store)
C1_ConcatDeterministic ==
  (cat.k >= 0 /\ cat.same) => SameRoot(cat.joined, cat.whole)

\* two non-empty halves of different depths were joined into a tree with
\* meta levels
C1_Witness ==
  /\ cat.k > 0 /\ cat.k < Len(catItems)
  /\ cat.fst.level /= cat.snd.level
  /\ cat.joined.level >= 1
  /\ ItemsOf(cat.joined) = catItems

\* C13: concat with an empty sequence returns the other sequence itself, and
\* no chunker is created: an empty fst gives snd, an empty snd gives fst.
C13_ConcatEmpty ==
  /\ (cat.k >= 0 /\ NumLeaves(cat.fst) = 0) =>
       cat.path = "snd" /\ SameRoot(cat.joined, cat.snd)
  /\ (cat.k >= 0 /\ NumLeaves(cat.fst) > 0 /\ NumLeaves(cat.snd) = 0) =>
       cat.path = "fst" /\ SameRoot(cat.joined, cat.fst)

\* a tree with a meta level was joined with an empty sequence
C13_Witness ==
  /\ cat.k = Len(catItems)
  /\ cat.path = "fst"
  /\ cat.fst.level >= 1
  /\ SameRoot(cat.joined, cat.fst)

\* C14 as stated: for any two sequences of distinct value stores concat fails
\* with the cross-database error and returns no sequence.
C14_CrossDatabaseAlways ==
  (cat.k >= 0 /\ ~cat.same) =>
    cat.path = "panic" /\ IsCrossDatabase(cat.joined)

\* C14: for two sequences of distinct value stores that both have leaves,
\* concat fails with the cross-database error and returns no sequence; when
\* one of them is empty the other is returned and the stores are not compared.
C14_CrossDatabase ==
  (cat.k >= 0 /\ ~cat.same) =>
    IF NumLeaves(cat.fst) > 0 /\ NumLeaves(cat.snd) > 0
      THEN cat.path = "panic" /\ IsCrossDatabase(cat.joined)
      ELSE /\ cat.path \in {"fst", "snd"}
           /\ ~IsCrossDatabase(cat.joined)
           /\ SameRoot(cat.joined, IF cat.path = "snd" THEN cat.snd ELSE cat.fst)

\* two non-empty halves of distinct value stores were given to concat
C14_Witness ==
  /\ ~cat.same
  /\ cat.k > 0 /\ cat.k < Len(catItems)
  /\ IsCrossDatabase(cat.joined)

\* C21: after the cursor-swap loop, whatever the depths of fst and snd, the
\* tower has a chunker for every level of snd's cursor chain, the chunker of
\* each of these levels has cur on snd's cursor of that level, at index 0,
\* and every chunker above snd's depth has cur = nil.
C21_TowerAfterSwap ==
  cat.path = "chunker" =>
    LET depth == cat.snd.level + 1
        curs == cat.tower.curs
    IN /\ Len(curs) >= depth
       /\ Len(cat.tower.sndIdx) = depth
       /\ \A i \in 1..Len(curs) :
            IF i <= depth
              THEN curs[i] = [c |-> "snd", l |-> i] /\ cat.tower.sndIdx[i] = 0
              ELSE curs[i] = NoCur

\* fst was a single leaf and snd a tree with a meta level: a parent chunker
\* was created by the loop
C21_Witness ==
  /\ cat.path = "chunker"
  /\ cat.fst.level = 0
  /\ cat.snd.level >= 1
  /\ Len(cat.tower.curs) = cat.snd.level + 1

----------------------------------------------------------------------------
(* NewBlob, readBlobsP and readBlob *)

Readers == 1..Len(rs)

\* all the bytes of the readers, in argument order
RECURSIVE AllBytes(_)
AllBytes(q) == IF q = <<>> THEN <<>> ELSE Head(q) \o AllBytes(Tail(q))

\* the byte sequences of a length
BytesOfLen(n) == [1..n -> Byte]

\* the reader lists holding at most n bytes together
RECURSIVE ReaderLists(_, _)
ReaderLists(k, n) ==
  IF k = 0 THEN {<<>>}
  ELSE {<<>>} \cup
       UNION {{<<b>> \o rest : rest \in ReaderLists(k - 1, n - Len(b)) \ {<<>>}}
                \cup {<<b>>} : b \in UNION {BytesOfLen(m) : m \in 0..n}}

\* the producer before its first Read
NewProducer ==
  [pc |-> "read", pos |-> 0, readBuff |-> <<>>, err |-> "nil",
   chunkBytes |-> <<>>, cap |-> ChunkBuffLen, rv |-> <<>>]

\* the consumer on entering the loop over mtChan, with the empty chunker sc
NoChunk == [seq |-> 0, run |-> <<>>, ready |-> FALSE]
NewConsumer ==
  [pc |-> "range", held |-> NoChunk, sc |-> newEmptySequenceChunker, blob |-> NoNode]

\* addByte(b): grow the buffer when it is full, store and hash the byte
addByteFixedBuffer(p, b) ==
  [p EXCEPT !.chunkBytes = IF Len(@) >= p.cap THEN @ ELSE Append(@, b),
            !.rv = HashByte(@, b)]
addByte(p, b) ==
  [p EXCEPT !.cap = IF Len(p.chunkBytes) >= @ THEN 2 * @ ELSE @,
            !.chunkBytes = Append(@, b),
            !.rv = HashByte(@, b)]

\* the loop over the bytes of readBuff, up to the first makeChunk
RECURSIVE AddBytes(_)
AddBytes(p) ==
  IF p.readBuff = <<>> THEN p
  ELSE LET q == addByte([p EXCEPT !.readBuff = Tail(@)], Head(p.readBuff))
       IN IF q.rv \in pat THEN [q EXCEPT !.pc = "makeChunk"] ELSE AddBytes(q)

\* where the producer goes when the bytes of readBuff are used up
AfterBytesNeverCloses(p) ==
  IF p.pc = "makeChunk" THEN p
  ELSE IF p.err = "EOF" /\ Len(p.chunkBytes) > 0 THEN [p EXCEPT !.pc = "makeChunk"]
  ELSE [p EXCEPT !.pc = "read"]
AfterBytes(p) ==
  IF p.pc = "makeChunk" THEN p
  ELSE IF p.err = "EOF"
    THEN IF Len(p.chunkBytes) > 0 THEN [p EXCEPT !.pc = "makeChunk"]
         ELSE [p EXCEPT !.pc = "closed"]
  ELSE [p EXCEPT !.pc = "read"]

\* the channel the consumer's loop receives next: the oldest one on mtChan
NextChunkReadyFirst(q) ==
  IF \E j \in 1..Len(q) : q[j].ready
    THEN CHOOSE j \in 1..Len(q) : q[j].ready /\ \A i \in 1..(j - 1) : ~q[i].ready
    ELSE 1
NextChunk(q) == 1

\* one step of readBlobsP's loop: b = b.Concat(ctx, blobs[i])
JoinBlobsReversed(b, other) == Concat(other, b)
JoinBlobs(b, other) == Concat(b, other)

BlobIdle ==
  /\ rs = <<>> /\ numCPU = 0
  /\ prod = <<>> /\ mtChan = <<>> /\ mtClosed = <<>> /\ cons = <<>>
  /\ cutOrder = <<>> /\ appended = <<>>
  /\ blobPc = "idle" /\ joinIdx = 0 /\ blobOut = NoNode

\* the windows the hasher can hold while it hashes these bytes
WindowsIn(bytes) ==
  {<<bytes[i]>> : i \in 1..Len(bytes)}
    \cup {<<bytes[i], bytes[i + 1]>> : i \in 1..(Len(bytes) - 1)}

\* the readers, and a hasher: hashers that differ only at windows that never
\* occur in the readers' bytes build the same blobs, so one of them is taken
BlobInit ==
  /\ rs \in ReaderLists(MaxReaders, MaxBytes)
  /\ \E h \in Hashers :
       /\ h.pat \subseteq WindowsIn(AllBytes(rs))
       /\ pat = h.pat /\ mpat = h.mpat
  /\ numCPU \in 1..MaxCPU
  /\ prod = [r \in Readers |-> NewProducer]
  /\ mtChan = [r \in Readers |-> <<>>]
  /\ mtClosed = [r \in Readers |-> FALSE]
  /\ cons = [r \in Readers |-> NewConsumer]
  /\ cutOrder = [r \in Readers |-> <<>>]
  /\ appended = [r \in Readers |-> <<>>]
  /\ blobPc = "running" /\ joinIdx = 0 /\ blobOut = NoNode

BlobOnly ==
  UNCHANGED <<mapVars, readVars, copyVars, hashVars, catVars, batchVars, cacheVars>>

\* n, err := r.Read(readBuff[:]), and the bytes up to the first boundary
ProducerRead(r, n, eof) ==
  /\ prod[r].pc = "read"
  /\ LET rem == Len(rs[r]) - prod[r].pos
         p == [prod[r] EXCEPT !.pos = @ + n,
                              !.readBuff = SubSeq(rs[r], prod[r].pos + 1, prod[r].pos + n),
                              !.err = IF eof THEN "EOF" ELSE "nil"]
         q == AfterBytes(AddBytes(p))
     IN /\ n <= rem
        /\ eof => n = rem
        /\ n = 0 => eof
        /\ prod' = [prod EXCEPT ![r] = q]
        /\ mtClosed' = [mtClosed EXCEPT ![r] = (q.pc = "closed")]
  /\ UNCHANGED <<rs, numCPU, mtChan, cons, cutOrder, appended, blobPc, joinIdx, blobOut>>
  /\ BlobOnly

\* makeChunk(): reset the hasher, queue the chunk's channel, start its
\* worker; then the rest of readBuff up to the next boundary
MakeChunkSend(r) ==
  /\ prod[r].pc = "makeChunk"
  /\ Len(mtChan[r]) < numCPU
  /\ LET p == prod[r]
         q == AfterBytes(AddBytes([p EXCEPT !.rv = <<>>, !.chunkBytes = <<>>,
                                            !.pc = "bytes"]))
     IN /\ mtChan' = [mtChan EXCEPT ![r] = Append(@, [seq |-> Len(cutOrder[r]) + 1,
                                                        run |-> p.chunkBytes,
                                                        ready |-> FALSE])]
        /\ cutOrder' = [cutOrder EXCEPT ![r] = Append(@, p.chunkBytes)]
        /\ prod' = [prod EXCEPT ![r] = q]
        /\ mtClosed' = [mtClosed EXCEPT ![r] = (q.pc = "closed")]
  /\ UNCHANGED <<rs, numCPU, cons, appended, blobPc, joinIdx, blobOut>>
  /\ BlobOnly

\* a worker has written its leaf and offers the meta-tuple on its channel
WorkerQueued(r, j) ==
  /\ j \in 1..Len(mtChan[r])
  /\ ~mtChan[r][j].ready
  /\ mtChan' = [mtChan EXCEPT ![r][j].ready = TRUE]
  /\ UNCHANGED <<rs, numCPU, prod, mtClosed, cons, cutOrder, appended, blobPc,
                 joinIdx, blobOut>>
  /\ BlobOnly

\* the same, for the worker whose channel the consumer already holds
WorkerHeld(r) ==
  /\ cons[r].pc = "recv"
  /\ ~cons[r].held.ready
  /\ cons' = [cons EXCEPT ![r].held.ready = TRUE]
  /\ UNCHANGED <<rs, numCPU, prod, mtChan, mtClosed, cutOrder, appended, blobPc,
                 joinIdx, blobOut>>
  /\ BlobOnly

\* for ch := range mtChan: the next channel
ConsumerTake(r) ==
  /\ cons[r].pc = "range"
  /\ Len(mtChan[r]) > 0
  /\ LET j == NextChunk(mtChan[r])
     IN /\ cons' = [cons EXCEPT ![r].pc = "recv", ![r].held = mtChan[r][j]]
        /\ mtChan' = [mtChan EXCEPT ![r] = Without(@, j)]
  /\ UNCHANGED <<rs, numCPU, prod, mtClosed, cutOrder, appended, blobPc, joinIdx, blobOut>>
  /\ BlobOnly

\* mt := <-ch; the parent is created for the first one; sc.parent.Append(mt)
ConsumerAppend(r) ==
  /\ cons[r].pc = "recv"
  /\ cons[r].held.ready
  /\ LET c == cons[r]
         mt == MetaTuple(LeafNode(c.held.run))
         S == IF Len(c.sc.ch) = 1 THEN createParent(c.sc, 1) ELSE c.sc
     IN /\ cons' = [cons EXCEPT ![r].pc = "range", ![r].held = NoChunk,
                                ![r].sc = ChunkerAppend(S, 2, mt)]
        /\ appended' = [appended EXCEPT ![r] = Append(@, [seq |-> c.held.seq, mt |-> mt])]
  /\ UNCHANGED <<rs, numCPU, prod, mtChan, mtClosed, cutOrder, blobPc, joinIdx, blobOut>>
  /\ BlobOnly

\* mtChan is closed and drained: return newBlob(sc.Done(ctx))
ConsumerDone(r) ==
  /\ cons[r].pc = "range"
  /\ Len(mtChan[r]) = 0
  /\ mtClosed[r]
  /\ cons' = [cons EXCEPT ![r].pc = "done", ![r].blob = Done(cons[r].sc, 1)]
  /\ UNCHANGED <<rs, numCPU, prod, mtChan, mtClosed, cutOrder, appended, blobPc,
                 joinIdx, blobOut>>
  /\ BlobOnly

\* case 0: return NewEmptyBlob(vrw)
ReturnEmpty ==
  /\ blobPc = "running"
  /\ Len(rs) = 0
  /\ blobPc' = "returned"
  /\ blobOut' = LeafNode(<<>>)
  /\ UNCHANGED <<rs, numCPU, prod, mtChan, mtClosed, cons, cutOrder, appended, joinIdx>>
  /\ BlobOnly

\* case 1: return readBlob(ctx, rs[0], vrw)
ReturnSingle ==
  /\ blobPc = "running"
  /\ Len(rs) = 1
  /\ cons[1].pc = "done"
  /\ blobPc' = "returned"
  /\ blobOut' = cons[1].blob
  /\ UNCHANGED <<rs, numCPU, prod, mtChan, mtClosed, cons, cutOrder, appended, joinIdx>>
  /\ BlobOnly

\* wg.Wait(); b := blobs[0]
WaitReaders ==
  /\ blobPc = "running"
  /\ Len(rs) > 1
  /\ \A r \in Readers : cons[r].pc = "done"
  /\ blobPc' = "join"
  /\ joinIdx' = 2
  /\ blobOut' = cons[1].blob
  /\ UNCHANGED <<rs, numCPU, prod, mtChan, mtClosed, cons, cutOrder, appended>>
  /\ BlobOnly

\* b = b.Concat(ctx, blobs[i]); return b after the last one
JoinStep ==
  /\ blobPc = "join"
  /\ blobOut' = JoinBlobs(blobOut, cons[joinIdx].blob)
  /\ joinIdx' = joinIdx + 1
  /\ blobPc' = IF joinIdx = Len(rs) THEN "returned" ELSE "join"
  /\ UNCHANGED <<rs, numCPU, prod, mtChan, mtClosed, cons, cutOrder, appended>>
  /\ BlobOnly

Producer ==
  \E r \in Readers :
    \/ \E n \in 0..MaxBytes, eof \in BOOLEAN : ProducerRead(r, n, eof)
    \/ MakeChunkSend(r)

Workers ==
  \E r \in Readers :
    \/ \E j \in 1..MaxCPU : WorkerQueued(r, j)
    \/ WorkerHeld(r)

Consumer ==
  \E r \in Readers : ConsumerTake(r) \/ ConsumerAppend(r) \/ ConsumerDone(r)

\* readBlob(ctx, r, vrw) run alone, on one reader
ReadBlobInit ==
  /\ rs \in {<<b>> : b \in UNION {BytesOfLen(m) : m \in 0..MaxRunBytes}}
  /\ \E h \in Hashers :
       /\ h.pat \subseteq WindowsIn(AllBytes(rs))
       /\ pat = h.pat /\ mpat = h.mpat
  /\ numCPU \in 1..MaxCPU
  /\ prod = [r \in Readers |-> NewProducer]
  /\ mtChan = [r \in Readers |-> <<>>]
  /\ mtClosed = [r \in Readers |-> FALSE]
  /\ cons = [r \in Readers |-> NewConsumer]
  /\ cutOrder = [r \in Readers |-> <<>>]
  /\ appended = [r \in Readers |-> <<>>]
  /\ blobPc = "running" /\ joinIdx = 0 /\ blobOut = NoNode

ReadBlobNext ==
  \/ Producer
  \/ Workers
  \/ Consumer
  \/ ReturnSingle

BlobNext ==
  \/ Producer
  \/ Workers
  \/ Consumer
  \/ ReturnEmpty
  \/ ReturnSingle
  \/ WaitReaders
  \/ JoinStep

----------------------------------------------------------------------------
(* Claims about NewBlob and readBlob *)

\* C2: the blob NewBlob returns has the root of the tree built in a single
\* pass over all the bytes, however the bytes are split across the readers,
\* whatever sizes the Read calls return and in whatever order the per-reader
\* and per-chunk workers finish; so one reader and several readers holding
\* the same bytes give the same root
C2_NewBlobDeterministic ==
  blobPc = "returned" => SameRoot(blobOut, Build(AllBytes(rs)))

\* two non-empty readers were read, in more than one chunk, and joined
C2_Witness ==
  /\ blobPc = "returned"
  /\ Len(rs) = 2
  /\ Len(rs[1]) > 0 /\ Len(rs[2]) > 0
  /\ Len(cutOrder[1]) + Len(cutOrder[2]) >= 3
  /\ blobOut.level >= 1

\* C7: the meta-tuples appended to the level-1 chunker of a reader are those
\* of its byte runs, in the order in which the runs were cut
C7_DeliveryOrder ==
  \A r \in Readers :
    /\ Len(appended[r]) <= Len(cutOrder[r])
    /\ \A i \in 1..Len(appended[r]) :
         /\ appended[r][i].seq = i
         /\ appended[r][i].mt.child.items = cutOrder[r][i]

\* a later worker finished before an earlier one whose channel the consumer
\* is waiting on, after a first meta-tuple was appended
C7_Witness ==
  \E r \in Readers :
    /\ Len(appended[r]) >= 1
    /\ cons[r].pc = "recv" /\ ~cons[r].held.ready
    /\ Len(mtChan[r]) > 0 /\ mtChan[r][1].ready

\* the hasher's window after hashing bytes, starting from window win
RECURSIVE HashRun(_, _)
HashRun(win, bytes) ==
  IF bytes = <<>> THEN win
  ELSE HashRun(HashByte(win, Head(bytes)), Tail(bytes))

\* the hasher, reset before the run, reports a boundary on the i-th byte
BoundaryAt(run, i) == HashRun(<<>>, SubSeq(run, 1, i)) \in pat

\* C22: whatever the bytes of the reader and the sizes its Read calls return,
\* the runs handed to the leaf workers are not empty, no run holds a boundary
\* before its last byte, every run except a last one cut at EOF ends on the
\* byte at which the hasher (reset before the run) reported a boundary, and
\* the runs followed by the bytes not yet cut are the bytes read so far, so
\* that at the end the runs are the input, nothing dropped or duplicated.
C22_ChunkPartition ==
  \A r \in Readers :
    LET runs == cutOrder[r]
        p == prod[r]
    IN /\ \A i \in 1..Len(runs) :
            /\ Len(runs[i]) > 0
            /\ \A j \in 1..(Len(runs[i]) - 1) : ~BoundaryAt(runs[i], j)
            /\ (i < Len(runs) \/ p.pc /= "closed") =>
                 BoundaryAt(runs[i], Len(runs[i]))
       /\ AllBytes(runs) \o p.chunkBytes \o p.readBuff = SubSeq(rs[r], 1, p.pos)
       /\ p.pc = "closed" => AllBytes(runs) = rs[r]

\* a run longer than the initial buffer was cut at a boundary, and a last
\* run that ends on no boundary was cut at EOF
C22_Witness ==
  /\ prod[1].pc = "closed"
  /\ Len(cutOrder[1]) = 2
  /\ Len(cutOrder[1][1]) > ChunkBuffLen
  /\ ~BoundaryAt(cutOrder[1][2], Len(cutOrder[1][2]))

\* C23: readBlob ends: mtChan is closed after the last run was queued, every
\* meta-tuple is handed over and appended, the consumer loop ends and Done
\* gives the blob; the level-1 chunker exists only once a meta-tuple has
\* arrived, and an empty input gives the empty blob without a parent; the
\* result of Done is not changed afterwards.
C23_ReadBlobEnds ==
  /\ [](\A r \in Readers :
         /\ (appended[r] = <<>> /\ cons[r].pc /= "done") => Len(cons[r].sc.ch) = 1
         /\ mtClosed[r] => prod[r].pc = "closed"
         /\ (cons[r].pc = "done" /\ rs[r] = <<>>) =>
              /\ Len(cons[r].sc.ch) = 1
              /\ SameRoot(cons[r].blob, LeafNode(<<>>)))
  /\ [][\A r \in Readers : cons[r].pc = "done" => cons'[r] = cons[r]]_vars
  /\ <>(\A r \in Readers :
          /\ cons[r].pc = "done"
          /\ mtClosed[r] /\ mtChan[r] = <<>>
          /\ Len(appended[r]) = Len(cutOrder[r]))

\* readBlob has returned a blob built from several meta-tuples
C23_Witness ==
  /\ blobPc = "returned"
  /\ cons[1].pc = "done"
  /\ Len(appended[1]) >= 2
  /\ Len(cons[1].sc.ch) >= 2

----------------------------------------------------------------------------
(* SqlBatcher *)

BatchTables == {"t1", "t2"}
\* a table name that the root does not have
NoTable == "t3"
BatchKeys == 1..MaxBatchKey
InsertOptions == [Replace : BOOLEAN, IgnoreExisting : BOOLEAN]

\* f with f[t] = v
Put(f, t, v) == [x \in DOMAIN f \cup {t} |-> IF x = t THEN v ELSE f[x]]
NoEntries == [x \in {} |-> {}]

\* NewSqlBatcher(root), sqlbatcher.go:34-42: the literal makes tables,
\* rowData, editors and hashes; the schemas field is left out, so it is nil
SchemasMade == [made |-> TRUE, names |-> {}]
SchemasNil == [made |-> FALSE, names |-> {}]
NewSqlBatcher ==
  [tables |-> {}, schemas |-> SchemasNil, rowData |-> NoEntries,
   editors |-> NoEntries, hashes |-> NoEntries]

\* b.getTable(ctx, tableName), sqlbatcher.go:98-110: [b, err]
getTable(b, t) ==
  IF t \in b.tables THEN [b |-> b, err |-> "nil"]
  ELSE IF t \notin DOMAIN bRoot THEN [b |-> b, err |-> "unknown table"]
  ELSE [b |-> [b EXCEPT !.tables = @ \cup {t}], err |-> "nil"]

\* b.getSchema(ctx, tableName), sqlbatcher.go:112-125; the assignment
\* b.schemas[tableName] = sch panics when the map is nil
getSchema(b, t) ==
  IF t \in b.schemas.names THEN [b |-> b, err |-> "nil"]
  ELSE LET g == getTable(b, t)
       IN IF g.err /= "nil" THEN g
          ELSE IF ~g.b.schemas.made THEN [b |-> g.b, err |-> "panic"]
          ELSE [b |-> [g.b EXCEPT !.schemas.names = @ \cup {t}], err |-> "nil"]

\* b.getRowData(ctx, tableName), sqlbatcher.go:142-155
getRowData(b, t) ==
  IF t \in DOMAIN b.rowData THEN [b |-> b, err |-> "nil"]
  ELSE LET g == getTable(b, t)
       IN IF g.err /= "nil" THEN g
          ELSE [b |-> [g.b EXCEPT !.rowData = Put(@, t, bRoot[t])], err |-> "nil"]

\* b.getEditor(ctx, tableName), sqlbatcher.go:127-140: the keys set so far
getEditor(b, t) ==
  IF t \in DOMAIN b.editors THEN [b |-> b, err |-> "nil"]
  ELSE LET g == getRowData(b, t)
       IN IF g.err /= "nil" THEN g
          ELSE [b |-> [g.b EXCEPT !.editors = Put(@, t, {})], err |-> "nil"]

\* b.getHashes(ctx, tableName), sqlbatcher.go:157-165
getHashes(b, t) ==
  IF t \in DOMAIN b.hashes THEN b
  ELSE [b EXCEPT !.hashes = Put(@, t, {})]

\* sqlbatcher.go:95: the result of an Insert that applied its edit
InsertResult(rowExists, rowAlreadyTouched) ==
  [RowInserted |-> ~rowExists, RowUpdated |-> rowExists \/ rowAlreadyTouched]
NoResult == [RowInserted |-> FALSE, RowUpdated |-> FALSE]

\* sqlbatcher.go:73-96, after the three getters: [b, ret, res]
InsertKey(b0, t, k, opt) ==
  LET rowExists == k \in b0.rowData[t]
      b == getHashes(b0, t)
      rowAlreadyTouched == k \in b.hashes[t]
  IN IF (rowExists \/ rowAlreadyTouched) /\ ~opt.Replace /\ ~opt.IgnoreExisting
       THEN [b |-> b, ret |-> "ErrKeyExists", res |-> NoResult]
     ELSE IF (rowExists \/ rowAlreadyTouched) /\ ~opt.Replace
       THEN [b |-> b, ret |-> "nil", res |-> NoResult]
     ELSE [b |-> [b EXCEPT !.editors[t] = @ \cup {k}, !.hashes[t] = @ \cup {k}],
           ret |-> "nil", res |-> InsertResult(rowExists, rowAlreadyTouched)]

\* b.Insert(ctx, tableName, r, opt), sqlbatcher.go:57-96: [b, ret, res]
InsertCall(b, t, k, opt) ==
  LET s1 == getSchema(b, t)
      s2 == getRowData(s1.b, t)
      s3 == getEditor(s2.b, t)
  IN IF s1.err /= "nil" THEN [b |-> s1.b, ret |-> s1.err, res |-> NoResult]
     ELSE IF s2.err /= "nil" THEN [b |-> s2.b, ret |-> s2.err, res |-> NoResult]
     ELSE IF s3.err /= "nil" THEN [b |-> s3.b, ret |-> s3.err, res |-> NoResult]
     ELSE InsertKey(s3.b, t, k, opt)

BatchIdle == bRoot = NoEntries /\ batcher = NewSqlBatcher /\ bCalls = <<>>

\* a root with the two tables, and NewSqlBatcher(root)
BatchInit ==
  /\ bRoot \in [BatchTables -> SUBSET BatchKeys]
  /\ batcher = NewSqlBatcher
  /\ bCalls = <<>>

\* the inputs of sqlbatcher.go:73-96: the batcher of an Insert whose getters
\* return, which takes a schemas map that was made
BatchKeysInit ==
  /\ bRoot \in [BatchTables -> SUBSET BatchKeys]
  /\ batcher = [NewSqlBatcher EXCEPT !.schemas = SchemasMade]
  /\ bCalls = <<>>

BatchOnly ==
  UNCHANGED <<mapVars, readVars, copyVars, hashVars, catVars, blobVars, cacheVars>>

\* one Insert call; a panic unwinds to the caller, who may go on
Insert(t, k, opt) ==
  /\ Len(bCalls) < MaxInserts
  /\ LET c == InsertCall(batcher, t, k, opt)
     IN /\ batcher' = c.b
        /\ bCalls' = Append(bCalls, [table |-> t, key |-> k, opt |-> opt,
                                     ret |-> c.ret, res |-> c.res,
                                     pre |-> batcher, post |-> c.b])
  /\ UNCHANGED bRoot
  /\ BatchOnly

BatchNext ==
  \E t \in BatchTables \cup {NoTable}, k \in BatchKeys, opt \in InsertOptions :
    Insert(t, k, opt)

----------------------------------------------------------------------------
(* Claims about SqlBatcher *)

\* the Insert calls on tables that the root has
OnRootTable == {j \in 1..Len(bCalls) : bCalls[j].table \in DOMAIN bRoot}
\* the keys set in the editor of a table, and the keys touched in the batch
EditsOf(b, t) == IF t \in DOMAIN b.editors THEN b.editors[t] ELSE {}
TouchedOf(b, t) == IF t \in DOMAIN b.hashes THEN b.hashes[t] ELSE {}
\* the key of call j was in the table's row data, or inserted in this batch
KeyExisted(j) == bCalls[j].key \in bRoot[bCalls[j].table]
KeyTouched(j) == bCalls[j].key \in TouchedOf(bCalls[j].pre, bCalls[j].table)
SameEdits(j) ==
  /\ EditsOf(bCalls[j].post, bCalls[j].table) = EditsOf(bCalls[j].pre, bCalls[j].table)
  /\ TouchedOf(bCalls[j].post, bCalls[j].table) = TouchedOf(bCalls[j].pre, bCalls[j].table)

\* C24: an Insert of a key that is in the table's row data or was inserted
\* earlier in the batch returns ErrKeyExists with neither option, an empty
\* result with IgnoreExisting alone, both leaving the editor and the touched
\* keys as they were; with Replace it applies the edit and marks the key.
C24_ExistingKey ==
  \A j \in OnRootTable :
    (KeyExisted(j) \/ KeyTouched(j)) =>
      LET c == bCalls[j]
      IN IF c.opt.Replace
           THEN /\ c.ret = "nil"
                /\ c.key \in EditsOf(c.post, c.table)
                /\ c.key \in TouchedOf(c.post, c.table)
         ELSE IF c.opt.IgnoreExisting
           THEN c.ret = "nil" /\ c.res = NoResult /\ SameEdits(j)
         ELSE c.ret = "ErrKeyExists" /\ SameEdits(j)

\* C25: starting from NewSqlBatcher, no Insert on a table of the root
\* aborts: every call returns a result or an error value.
C25_InsertNeverAborts ==
  \A j \in OnRootTable : bCalls[j].ret /= "panic"

----------------------------------------------------------------------------
(* OrderedPutCache *)

CacheHashes == {"a", "b"}
\* put-cache.js:55: the key of a hash whose insert has not completed
Placeholder == 0 - 1
\* the first _id the collection hands out; later ones increase
FirstId == 1

\* Map.has, Map.get, Map.set and Map.delete on the entries in insertion order
IndexPos(ix, h) == {i \in 1..Len(ix) : ix[i].hash = h}
IndexHas(ix, h) == IndexPos(ix, h) /= {}
IndexGet(ix, h) == ix[CHOOSE i \in IndexPos(ix, h) : TRUE].key
IndexSet(ix, h, k) ==
  IF IndexHas(ix, h)
    THEN [i \in 1..Len(ix) |-> IF ix[i].hash = h THEN [hash |-> h, key |-> k] ELSE ix[i]]
    ELSE Append(ix, [hash |-> h, key |-> k])

\* the appends whose insert is pending, and those whose insert was rejected
PendingAppends == {i \in 1..Len(appends) : appends[i].st = "pending"}
Pending == {appends[i].n : i \in PendingAppends}
Rejected == {appends[i].n : i \in 1..Len(appends)} \ Pending
\* Promise.all(this._appends) of a call: the promises in the set at the call
Awaited == {appends[i].n : i \in 1..Len(appends)}

\* Promise.all has settled: every awaited append completed, or one rejected
Ready(o) == o.awaits \cap Pending = {} \/ o.awaits \cap Rejected /= {}
ReadyOps == {i \in 1..Len(ops) : Ready(ops[i])}
\* reactions run in the order they were queued
FirstReady == CHOOSE i \in ReadyOps : \A j \in ReadyOps : i <= j
RemoveAt(q, i) == SubSeq(q, 1, i - 1) \o SubSeq(q, i + 1, Len(q))

\* the caller's code runs on: either it has not returned to the event loop
\* since its last call, or no promise reaction is waiting to run
CanCall == cCalls < MaxCacheCalls /\ (inTask \/ ReadyOps = {})

NoRun ==
  [kind |-> "none", a |-> "a", b |-> "a", outcome |-> "none",
   before |-> <<>>, after |-> <<>>, collBefore |-> {}, collAfter |-> {},
   count |-> 0, dropped |-> 0, keys |-> <<>>]

CacheIdle ==
  /\ chunkIndex = <<>> /\ coll = {} /\ nextId = FirstId /\ appends = <<>>
  /\ ops = <<>> /\ cLast = NoRun /\ cCalls = 0 /\ inTask = FALSE

\* new OrderedPutCache(), put-cache.js:33-38, its collection ready
CacheInit == CacheIdle

CacheOnly ==
  UNCHANGED <<mapVars, readVars, copyVars, hashVars, catVars, blobVars, batchVars>>

Call(kind, x, y) ==
  /\ ops' = Append(ops, [n |-> cCalls + 1, kind |-> kind, a |-> x, b |-> y,
                         awaits |-> Awaited])
  /\ cCalls' = cCalls + 1
  /\ inTask' = TRUE
  /\ UNCHANGED <<chunkIndex, coll, nextId, appends, cLast>>
  /\ CacheOnly

\* append(c), put-cache.js:50-62, up to the pending insert
AppendCall(h) ==
  /\ CanCall
  /\ ~IndexHas(chunkIndex, h)
  /\ chunkIndex' = IndexSet(chunkIndex, h, Placeholder)
  /\ appends' = Append(appends, [n |-> cCalls + 1, hash |-> h, st |-> "pending"])
  /\ cCalls' = cCalls + 1
  /\ inTask' = TRUE
  /\ UNCHANGED <<coll, nextId, ops, cLast>>
  /\ CacheOnly

\* the insert of the oldest pending append completes, put-cache.js:56-59 and
\* 154-167; the collection has a unique index on hash (put-cache.js:46)
AppendResolves ==
  /\ ReadyOps = {}
  /\ PendingAppends /= {}
  /\ LET i == CHOOSE x \in PendingAppends : \A y \in PendingAppends : x <= y
         h == appends[i].hash
     IN IF \E r \in coll : r.hash = h
          THEN /\ appends' = [appends EXCEPT ![i].st = "rejected"]
               /\ UNCHANGED <<chunkIndex, coll, nextId>>
          ELSE /\ coll' = coll \cup {[id |-> nextId, hash |-> h]}
               /\ nextId' = nextId + 1
               /\ chunkIndex' = IndexSet(chunkIndex, h, nextId)
               /\ appends' = RemoveAt(appends, i)
  /\ inTask' = FALSE
  /\ UNCHANGED <<ops, cLast, cCalls>>
  /\ CacheOnly

\* get(hash), put-cache.js:64-78: the call, and the reaction that finds it
GetCall(h) == CanCall /\ IndexHas(chunkIndex, h) /\ Call("get", h, h)

\* dropUntil(limit), put-cache.js:80-85: the call
DropUntilCall(h) == CanCall /\ IndexHas(chunkIndex, h) /\ Call("dropUntil", h, h)

\* extractChunks(first, last), put-cache.js:97-100: the call
ExtractCall(x, y) == CanCall /\ Call("extractChunks", x, y)

\* the reaction of the first settled call is run
Run(kind, outcome, ix, cl, count, dropped, keys) ==
  /\ cLast' = [kind |-> kind, a |-> ops[FirstReady].a, b |-> ops[FirstReady].b,
               outcome |-> outcome, before |-> chunkIndex, after |-> ix,
               collBefore |-> coll, collAfter |-> cl,
               count |-> count, dropped |-> dropped, keys |-> keys]
  /\ chunkIndex' = ix
  /\ coll' = cl
  /\ ops' = RemoveAt(ops, FirstReady)
  /\ inTask' = FALSE
  /\ UNCHANGED <<nextId, appends, cCalls>>
  /\ CacheOnly

RunRejected(kind) == Run(kind, "rejected", chunkIndex, coll, 0, 0, <<>>)

\* DbCollection.dropUntil(limit), put-cache.js:190-201
CollDropUntil(cl, limit) == {r \in cl : r.id > limit}

\* DbCollection.findRange(first, last), put-cache.js:182-188
FindRange(cl, first, last) == {r \in cl : r.id >= first /\ r.id <= last}

\* the reaction of get, put-cache.js:70-77
GetRun ==
  /\ ReadyOps /= {}
  /\ ops[FirstReady].kind = "get"
  /\ IF ops[FirstReady].awaits \cap Rejected /= {}
       THEN RunRejected("get")
       ELSE Run("get",
                IF \E r \in coll : r.hash = ops[FirstReady].a THEN "chunk" ELSE "empty",
                chunkIndex, coll, 0, 0, <<>>)

\* the reaction of dropUntil, put-cache.js:85-94
DropUntilRun ==
  /\ ReadyOps /= {}
  /\ ops[FirstReady].kind = "dropUntil"
  /\ IF ops[FirstReady].awaits \cap Rejected /= {}
       THEN RunRejected("dropUntil")
       ELSE LET limit == ops[FirstReady].a
                at == IndexPos(chunkIndex, limit)
            IN IF at = {}
                 THEN Run("dropUntil", "ok", <<>>, coll, Len(chunkIndex), 0, <<>>)
                 ELSE LET count == CHOOSE i \in at : TRUE
                          dbKey == chunkIndex[count].key
                          left == CollDropUntil(coll, dbKey)
                          dropped == Cardinality(coll \ left)
                      IN Run("dropUntil",
                             IF dropped = count THEN "ok" ELSE "invariant",
                             SubSeq(chunkIndex, count + 1, Len(chunkIndex)),
                             left, count, dropped, <<dbKey>>)

\* the reaction of extractChunks, put-cache.js:100-111
ExtractRun ==
  /\ ReadyOps /= {}
  /\ ops[FirstReady].kind = "extractChunks"
  /\ IF ops[FirstReady].awaits \cap Rejected /= {}
       THEN RunRejected("extractChunks")
       ELSE LET first == ops[FirstReady].a
                last == ops[FirstReady].b
            IN IF ~IndexHas(chunkIndex, first) \/ ~IndexHas(chunkIndex, last)
                 THEN Run("extractChunks", "throws", chunkIndex, coll, 0, 0, <<>>)
                 ELSE Run("extractChunks", "ok", chunkIndex, coll, 0, 0,
                          <<IndexGet(chunkIndex, first), IndexGet(chunkIndex, last)>>)

CacheNext ==
  \/ \E h \in CacheHashes : AppendCall(h)
  \/ AppendResolves
  \/ \E h \in CacheHashes : GetCall(h)
  \/ GetRun
  \/ \E h \in CacheHashes : DropUntilCall(h)
  \/ DropUntilRun
  \/ \E x, y \in CacheHashes : ExtractCall(x, y)
  \/ ExtractRun

----------------------------------------------------------------------------
(* Claims about OrderedPutCache *)

\* the hashes of the first n entries of an index
HashesUpTo(ix, n) == {ix[i].hash : i \in 1..n}

\* the records that the entries of an index with an assigned key stand for
Indexed(ix) ==
  {[id |-> ix[i].key, hash |-> ix[i].hash] :
     i \in {j \in 1..Len(ix) : ix[j].key /= Placeholder}}

\* C27: the index and the collection agree: the entries with an assigned key
\* are exactly the records of the collection. A dropUntil(limit) that was
\* called with limit in the index removes from the index exactly the entries
\* up to and including limit and from the collection exactly the records of
\* those hashes (dropped = count), and leaves every later entry in place;
\* when an earlier dropUntil has dropped limit already, it removes nothing.
C27_DropUntilAgrees ==
  /\ Indexed(chunkIndex) = coll
  /\ (cLast.kind = "dropUntil" /\ cLast.outcome /= "rejected") =>
       IF IndexHas(cLast.before, cLast.a)
         THEN /\ cLast.outcome = "ok"
              /\ cLast.dropped = cLast.count
              /\ cLast.before[cLast.count].hash = cLast.a
              /\ cLast.after = SubSeq(cLast.before, cLast.count + 1, Len(cLast.before))
              /\ cLast.collBefore \ cLast.collAfter =
                   {r \in cLast.collBefore :
                      r.hash \in HashesUpTo(cLast.before, cLast.count)}
         ELSE cLast.after = cLast.before /\ cLast.collAfter = cLast.collBefore

\* C28: no key that dropUntil or extractChunks passes to the collection is
\* the placeholder: each is the id of a record that an insert returned.
C28_NoPlaceholderKey ==
  \A i \in 1..Len(cLast.keys) :
    cLast.keys[i] /= Placeholder /\ cLast.keys[i] \in FirstId..(nextId - 1)

----------------------------------------------------------------------------
(* Specifications *)

InitMap ==
  MapInit /\ ReadIdle /\ CopyIdle /\ HashIdle /\ CatIdle /\ BlobIdle /\ BatchIdle /\ CacheIdle
SpecMap == InitMap /\ [][MapNext]_vars

InitRead ==
  ReadInit /\ MapIdle /\ CopyIdle /\ HashIdle /\ CatIdle /\ BlobIdle /\ BatchIdle /\ CacheIdle
SpecRead == InitRead /\ [][ReadNext]_vars

InitCopy ==
  CopyInit /\ MapIdle /\ ReadIdle /\ HashIdle /\ CatIdle /\ BlobIdle /\ BatchIdle /\ CacheIdle
SpecCopy == InitCopy /\ [][CopyNext]_vars

InitConcat ==
  CatInit /\ MapIdle /\ ReadIdle /\ CopyIdle /\ BlobIdle /\ BatchIdle /\ CacheIdle
SpecConcat == InitConcat /\ [][CatNext]_vars

InitBlob ==
  BlobInit /\ MapIdle /\ ReadIdle /\ CopyIdle /\ CatIdle /\ BatchIdle /\ CacheIdle
SpecBlob == InitBlob /\ [][BlobNext]_vars

InitReadBlob ==
  ReadBlobInit /\ MapIdle /\ ReadIdle /\ CopyIdle /\ CatIdle /\ BatchIdle /\ CacheIdle
SpecReadBlob == InitReadBlob /\ [][ReadBlobNext]_vars

InitBatch ==
  BatchInit /\ MapIdle /\ ReadIdle /\ CopyIdle /\ HashIdle /\ CatIdle /\ BlobIdle /\ CacheIdle
SpecBatch == InitBatch /\ [][BatchNext]_vars

\* sqlbatcher.go:73-96 on every row data, touched-key set and options
InitBatchKeys ==
  BatchKeysInit /\ MapIdle /\ ReadIdle /\ CopyIdle /\ HashIdle /\ CatIdle /\ BlobIdle /\ CacheIdle
SpecBatchKeys == InitBatchKeys /\ [][BatchNext]_vars

InitCache ==
  CacheInit /\ MapIdle /\ ReadIdle /\ CopyIdle /\ HashIdle /\ CatIdle /\ BlobIdle /\ BatchIdle
SpecCache == InitCache /\ [][CacheNext]_vars

\* readBlob on a reader of at most MaxBytes bytes
InitReadBlobEnd == InitReadBlob /\ Len(rs[1]) <= MaxBytes

\* the consuming loop can end: ConsumerDone is enabled exactly then
CanEnd ==
  \E r \in Readers : cons[r].pc = "range" /\ Len(mtChan[r]) = 0 /\ mtClosed[r]

\* the producer, the leaf workers and the consuming loop are goroutines that
\* run when they can (a Read returns bytes or EOF); the last conjunct is weak
\* fairness of the loop's end, with its enabling condition written out
SpecReadBlobFair ==
  /\ InitReadBlobEnd /\ [][ReadBlobNext]_vars
  /\ WF_vars(Producer)
  /\ WF_vars(Workers)
  /\ WF_vars(\E r \in Readers : ConsumerTake(r) \/ ConsumerAppend(r))
  /\ ([]<>(~CanEnd) \/ []<><<\E r \in Readers : ConsumerDone(r)>>_vars)

\* a send that can go through, or whose select can fail, is taken
Senders == SendPKErr \/ SendFVErr \/ SendPKRecover \/ SendFVRecover
SpecMapFair == SpecMap /\ WF_vars(Senders)

\* the Go scheduler runs every goroutine that can take a step
SpecCopyFair ==
  SpecCopy /\ WF_vars(Dispatcher) /\ WF_vars(Fetchers) /\ WF_vars(Writer)

====
